---- MODULE Spec2Model ----
(***************************************************************************)
(* Model of the NFT generation pipeline of gen-nft-app: the layer          *)
(* compositor (utils/nftGenerator: getImagesForLayer,                      *)
(* createRandomCombination, generateNFT), the MinIO upload helper          *)
(* (utils/minioClient) and the three server actions (app/actions.ts).      *)
(*                                                                         *)
(* A string is a sequence of pieces. Wherever the code looks inside a      *)
(* string (endsWith, startsWith, toLowerCase, replace, trim, parseInt,     *)
(* path.join, path.basename) the pieces are its characters, "/" is always   *)
(* a piece of its own, and a literal the code only copies or compares as a *)
(* whole is one piece. Template literals are concatenations.               *)
(***************************************************************************)
EXTENDS Integers, Sequences, FiniteSets, TLC

(***************************************************************************)
(* Bounds of the model.                                                    *)
(***************************************************************************)
\* resolution of Math.random(): it returns k / RandRes, k in 0..RandRes-1
RandRes == 3
\* the clock (new Date()) takes values 0..MaxClock
MaxClock == 1
\* largest total supply the chain reports and largest token id of a direct call
MaxSupply == 1
\* the calls made in one behaviour
MaxCalls == 2
\* the failures of the environment (file system, network, MinIO) in one behaviour
MaxFaults == 1

(***************************************************************************)
(* String literals of the source.                                          *)
(***************************************************************************)
S_Background == <<"Background">>
S_Subject == <<"Subject">>
S_bgFolder == <<".", "/", "public", "/", "assets", "/", "layers", "/", "backgrounds">>
S_subjFolder == <<".", "/", "public", "/", "assets", "/", "layers", "/", "subjects">>
S_collectionName == <<"Dog NFT Collection">>
S_description == <<"A collection of unique dog NFTs with timestamps">>
S_defaultOutputDir == <<".", "/", "public", "/", "output">>
S_outputDir == <<"public", "/", "output">>
S_collectionsDir == <<"public", "/", "collections">>
S_errPrefix == <<"Layer \"">>
S_errSuffix == <<"\" is required but has no images">>
S_https == <<"h", "t", "t", "p", "s", ":", "/", "/">>
S_http == <<"h", "t", "t", "p">>
S_images == <<"images">>
S_metadata == <<"metadata">>
S_slashImages == <<"/", "images", "/">>
S_dotpng == <<".", "p", "n", "g">>
S_dotjson == <<".", "j", "s", "o", "n">>
S_hash == <<" #">>
S_errGen == <<"Error generating NFT: ">>
S_errCreate == <<"Error creating new collection: ">>
S_failTokenId == <<"Failed to get token ID from blockchain">>
S_invalidName == <<"Invalid collection name. Please provide a valid name.">>
S_slashCollections == <<"/", "collections", "/">>
S_slashMetadata == <<"/", "metadata", "/">>
S_uniqueSuffix == <<" - A unique NFT collection">>
S_partOf == <<"Part of the ">>
S_collectionSuffix == <<" collection">>
S_notExistPrefix == <<"Collection \"">>
S_notExistSuffix == <<"\" does not exist.">>
S_nftCollection == <<"nft-collection">>

(***************************************************************************)
(* String operations of JavaScript, on sequences of characters.            *)
(***************************************************************************)
Digits == <<"0", "1", "2", "3", "4", "5", "6", "7", "8", "9">>

UpperToLower ==
  ("A" :> "a") @@ ("B" :> "b") @@ ("C" :> "c") @@ ("D" :> "d") @@ ("E" :> "e") @@
  ("F" :> "f") @@ ("G" :> "g") @@ ("H" :> "h") @@ ("I" :> "i") @@ ("J" :> "j") @@
  ("K" :> "k") @@ ("L" :> "l") @@ ("M" :> "m") @@ ("N" :> "n") @@ ("O" :> "o") @@
  ("P" :> "p") @@ ("Q" :> "q") @@ ("R" :> "r") @@ ("S" :> "s") @@ ("T" :> "t") @@
  ("U" :> "u") @@ ("V" :> "v") @@ ("W" :> "w") @@ ("X" :> "x") @@ ("Y" :> "y") @@
  ("Z" :> "z")

\* String.prototype.toLowerCase
ToLowerCase(s) ==
  [i \in 1..Len(s) |-> IF s[i] \in DOMAIN UpperToLower THEN UpperToLower[s[i]] ELSE s[i]]

\* String.prototype.endsWith
EndsWith(s, suffix) ==
  /\ Len(suffix) <= Len(s)
  /\ SubSeq(s, Len(s) - Len(suffix) + 1, Len(s)) = suffix

\* String.prototype.startsWith
StartsWith(s, prefix) ==
  /\ Len(prefix) <= Len(s)
  /\ SubSeq(s, 1, Len(prefix)) = prefix

\* mutant: the file name is kept whole
RemoveExtension_keep(file) == file

\* file.replace(/\.[^/.]+$/, ""): drop a final extension, a dot followed by
\* one or more characters that are neither "/" nor "."
RemoveExtension(file) ==
  LET starts == {i \in 1..Len(file) :
                   /\ file[i] = "."
                   /\ i < Len(file)
                   /\ \A j \in (i + 1)..Len(file) : file[j] \notin {"/", "."}}
  IN IF starts = {} THEN file
     ELSE SubSeq(file, 1, (CHOOSE i \in starts : \A k \in starts : i <= k) - 1)

\* the decimal digits of a natural number, as `${n}` prints it
RECURSIVE NumToStr(_)
NumToStr(n) ==
  IF n < 10 THEN <<Digits[n + 1]>>
  ELSE NumToStr(n \div 10) \o <<Digits[(n % 10) + 1]>>

\* path.join of two segments: "/" between them, a leading "./" normalised away
PathJoin(a, b) ==
  LET joined == a \o <<"/">> \o b
  IN IF StartsWith(joined, <<".", "/">>) THEN SubSeq(joined, 3, Len(joined)) ELSE joined

\* path.basename: what follows the last "/"
Basename(p) ==
  LET slashes == {i \in 1..Len(p) : p[i] = "/"}
  IN IF slashes = {} THEN p
     ELSE SubSeq(p, (CHOOSE i \in slashes : \A k \in slashes : k <= i) + 1, Len(p))

\* path.dirname: what precedes the last "/"
Dirname(p) ==
  LET slashes == {i \in 1..Len(p) : p[i] = "/"}
  IN IF slashes = {} THEN <<".">>
     ELSE SubSeq(p, 1, (CHOOSE i \in slashes : \A k \in slashes : k <= i) - 1)

WhiteSpace == {" ", "\t", "\n"}

LowerLetters == {UpperToLower[c] : c \in DOMAIN UpperToLower}

DigitChars == {Digits[i] : i \in 1..10}

\* the characters \w matches
WordChars == LowerLetters \cup (DOMAIN UpperToLower) \cup DigitChars \cup {"_"}

\* String.prototype.toUpperCase of one character
ToUpperChar(c) ==
  IF c \in LowerLetters THEN CHOOSE u \in DOMAIN UpperToLower : UpperToLower[u] = c ELSE c

\* String.prototype.trim
RECURSIVE TrimStart(_)
TrimStart(s) == IF s # <<>> /\ Head(s) \in WhiteSpace THEN TrimStart(Tail(s)) ELSE s

RECURSIVE TrimEnd(_)
TrimEnd(s) ==
  IF s # <<>> /\ s[Len(s)] \in WhiteSpace THEN TrimEnd(SubSeq(s, 1, Len(s) - 1)) ELSE s

Trim(s) == TrimEnd(TrimStart(s))

\* s.replace(/\s+/g, '-'): every run of white space becomes one "-"
RECURSIVE ReplaceSpaceRuns(_)
ReplaceSpaceRuns(s) ==
  IF s = <<>> THEN <<>>
  ELSE IF Head(s) \in WhiteSpace THEN <<"-">> \o ReplaceSpaceRuns(TrimStart(s))
  ELSE <<Head(s)>> \o ReplaceSpaceRuns(Tail(s))

\* s.replace(/[^a-z0-9-]/g, '')
RemoveUnsafe(s) ==
  LET Safe(c) == c \in LowerLetters \cup DigitChars \cup {"-"}
  IN SelectSeq(s, Safe)

\* s.replace('.png', ''): the first occurrence only
RemoveFirstDotPng(s) ==
  LET hits == {i \in 1..(Len(s) - 3) : SubSeq(s, i, i + 3) = <<".", "p", "n", "g">>}
  IN IF hits = {} THEN s
     ELSE LET i == CHOOSE h \in hits : \A k \in hits : h <= k
          IN SubSeq(s, 1, i - 1) \o SubSeq(s, i + 4, Len(s))

\* the value of a string of decimal digits
RECURSIVE DigitsValue(_)
DigitsValue(ds) ==
  IF ds = <<>> THEN 0
  ELSE 10 * DigitsValue(SubSeq(ds, 1, Len(ds) - 1))
         + ((CHOOSE i \in 1..10 : Digits[i] = ds[Len(ds)]) - 1)

\* the longest prefix of s made of digits
RECURSIVE DigitPrefix(_)
DigitPrefix(s) ==
  IF s # <<>> /\ Head(s) \in DigitChars THEN <<Head(s)>> \o DigitPrefix(Tail(s)) ELSE <<>>

\* parseInt(s, 10): leading white space, a sign, then digits up to the first
\* other character; NaN (nan = TRUE) without a digit
ParseInt(s) ==
  LET t == TrimStart(s)
      signed == t # <<>> /\ Head(t) \in {"+", "-"}
      body == IF signed THEN Tail(t) ELSE t
      ds == DigitPrefix(body)
  IN [nan |-> ds = <<>>,
      n |-> IF signed /\ Head(t) = "-" THEN 0 - DigitsValue(ds) ELSE DigitsValue(ds)]

(***************************************************************************)
(* Configuration.                                                          *)
(***************************************************************************)
\* the folder of each layer of DEFAULT_CONFIG
LayerFolder ==
  (S_Background :> S_bgFolder) @@ (S_Subject :> S_subjFolder)

LayerNames == DOMAIN LayerFolder

LayerConfig(name, required) ==
  [name |-> name, folder |-> LayerFolder[name], required |-> required]

\* DEFAULT_CONFIG.layers
DefaultLayers == <<LayerConfig(S_Background, TRUE), LayerConfig(S_Subject, TRUE)>>

\* the layer lists a caller may configure: the layers of DEFAULT_CONFIG, each
\* required or optional, in any order and number, a layer at most once (its
\* name identifies it)
LayerLists ==
  UNION {
    {l \in [1..n -> {LayerConfig(nm, rq) : nm \in LayerNames, rq \in BOOLEAN}] :
       \A i, j \in 1..n : i # j => l[i].name # l[j].name}
    : n \in 0..Cardinality(LayerNames)}


(***************************************************************************)
(* State.                                                                  *)
(***************************************************************************)
VARIABLES
  layers,      \* config.layers, the ordered LayerConfig list every call uses
  layerDirs,   \* the layer folders: folder -> [exists, files (readdir order)]
  env,         \* process.env: the S3_* variables ("" when unset)
  dirs,        \* the directories that exist under the output locations
  files,       \* the files under the output locations: path -> content
  bucket,      \* the objects stored in MinIO: URL -> content
  totalSupply, \* the ERC-721 total supply the chain API reports
  clock,       \* the last instant new Date() returned
  req,         \* the requests in flight: slot -> the call's local state
  calls,       \* the calls made so far
  faults,      \* the failures of the environment so far
  ui,          \* the Web3AuthNFTMinter component: its state and its handler
  ret          \* the call under study of the function and route specifications

vars ==
  <<layers, layerDirs, env, dirs, files, bucket, totalSupply, clock, req, calls, faults,
    ui, ret>>

\* the request slots: two calls can be in flight at once
Procs == {1, 2}

(***************************************************************************)
(* Layer resolver and combination selector (utils/nftGenerator).           *)
(***************************************************************************)
\* file names found in the layer folders
F_a == <<"a", ".", "p", "n", "g">>
F_B == <<"B", ".", "P", "N", "G">>
F_n == <<"n", ".", "t", "x", "t">>

\* what a layer folder can look like: absent, without any PNG, with one PNG,
\* with one PNG after another file, with two PNGs (one with an upper-case
\* extension) around another file
FolderStates ==
  { [exists |-> FALSE, files |-> <<>>],
    [exists |-> TRUE, files |-> <<F_n>>],
    [exists |-> TRUE, files |-> <<F_a>>],
    [exists |-> TRUE, files |-> <<F_n, F_a>>],
    [exists |-> TRUE, files |-> <<F_a, F_n, F_B>>] }

\* mutant: every entry of the folder is taken for an image
GetImagesForLayer_unfiltered(layerConfig, ld) ==
  IF ~ld[layerConfig.folder].exists THEN <<>>
  ELSE LET pngs == ld[layerConfig.folder].files
       IN [k \in 1..Len(pngs) |->
             [name |-> layerConfig.name,
              trait |-> RemoveExtension(pngs[k]),
              path |-> PathJoin(layerConfig.folder, pngs[k])]]

\* mutant: only a lower-case .png extension counts
GetImagesForLayer_caseSensitive(layerConfig, ld) ==
  IF ~ld[layerConfig.folder].exists THEN <<>>
  ELSE LET IsPng(file) == EndsWith(file, S_dotpng)
           pngs == SelectSeq(ld[layerConfig.folder].files, IsPng)
       IN [k \in 1..Len(pngs) |->
             [name |-> layerConfig.name,
              trait |-> RemoveExtension(pngs[k]),
              path |-> PathJoin(layerConfig.folder, pngs[k])]]

\* getImagesForLayer: the LayerAttribute of every *.png entry of the folder,
\* in readdir order; empty when the folder does not exist
GetImagesForLayer(layerConfig, ld) ==
  IF ~ld[layerConfig.folder].exists THEN <<>>
  ELSE LET IsPng(file) == EndsWith(ToLowerCase(file), S_dotpng)
           pngs == SelectSeq(ld[layerConfig.folder].files, IsPng)
       IN [k \in 1..Len(pngs) |->
             [name |-> layerConfig.name,
              trait |-> RemoveExtension(pngs[k]),
              path |-> PathJoin(layerConfig.folder, pngs[k])]]

\* Math.floor(Math.random() * n), Math.random() being u / RandRes
RandomIndex(u, n) == (u * n) \div RandRes

\* mutant: the message does not say which layer is missing
MissingLayerMessage_anonymous(name) == S_errPrefix \o S_errSuffix

\* new Error(`Layer "${layer.name}" is required but has no images`).message
MissingLayerMessage(name) == S_errPrefix \o name \o S_errSuffix

\* mutant: the loop stops one layer early
RECURSIVE CombineFrom_offByOne(_, _, _, _, _)
CombineFrom_offByOne(ls, ld, rnd, k, acc) ==
  IF k >= Len(ls) THEN [ok |-> TRUE, combination |-> acc, message |-> <<>>]
  ELSE LET images == GetImagesForLayer(ls[k], ld)
       IN IF Len(images) = 0
          THEN IF ls[k].required
               THEN [ok |-> FALSE, combination |-> <<>>,
                     message |-> MissingLayerMessage(ls[k].name)]
               ELSE CombineFrom_offByOne(ls, ld, rnd, k + 1, acc)
          ELSE CombineFrom_offByOne(ls, ld, rnd, k + 1,
                           Append(acc, images[RandomIndex(rnd[k], Len(images)) + 1]))

\* mutant: a layer without images is an error whether required or not
RECURSIVE CombineFrom_strict(_, _, _, _, _)
CombineFrom_strict(ls, ld, rnd, k, acc) ==
  IF k > Len(ls) THEN [ok |-> TRUE, combination |-> acc, message |-> <<>>]
  ELSE LET images == GetImagesForLayer(ls[k], ld)
       IN IF Len(images) = 0
          THEN [ok |-> FALSE, combination |-> <<>>,
                message |-> MissingLayerMessage(ls[k].name)]
          ELSE CombineFrom_strict(ls, ld, rnd, k + 1,
                           Append(acc, images[RandomIndex(rnd[k], Len(images)) + 1]))

\* mutant: the selected image is put in front of the combination (unshift)
RECURSIVE CombineFrom_unshift(_, _, _, _, _)
CombineFrom_unshift(ls, ld, rnd, k, acc) ==
  IF k > Len(ls) THEN [ok |-> TRUE, combination |-> acc, message |-> <<>>]
  ELSE LET images == GetImagesForLayer(ls[k], ld)
       IN IF Len(images) = 0
          THEN IF ls[k].required
               THEN [ok |-> FALSE, combination |-> <<>>,
                     message |-> MissingLayerMessage(ls[k].name)]
               ELSE CombineFrom_unshift(ls, ld, rnd, k + 1, acc)
          ELSE CombineFrom_unshift(ls, ld, rnd, k + 1,
                           <<images[RandomIndex(rnd[k], Len(images)) + 1]>> \o acc)

\* the loop of createRandomCombination from layer k on, acc being the
\* combination so far; rnd[k] is the random draw made for layer k
RECURSIVE CombineFrom(_, _, _, _, _)
CombineFrom(ls, ld, rnd, k, acc) ==
  IF k > Len(ls) THEN [ok |-> TRUE, combination |-> acc, message |-> <<>>]
  ELSE LET images == GetImagesForLayer(ls[k], ld)
       IN IF Len(images) = 0
          THEN IF ls[k].required
               THEN [ok |-> FALSE, combination |-> <<>>,
                     message |-> MissingLayerMessage(ls[k].name)]
               ELSE CombineFrom(ls, ld, rnd, k + 1, acc)
          ELSE CombineFrom(ls, ld, rnd, k + 1,
                           Append(acc, images[RandomIndex(rnd[k], Len(images)) + 1]))

\* createRandomCombination: ok and the combination, or not ok and the
\* message of the error thrown
CreateRandomCombination(ls, ld, rnd) == CombineFrom(ls, ld, rnd, 1, <<>>)


(***************************************************************************)
(* Requests.                                                               *)
(***************************************************************************)
NoMetadata ==
  [name |-> <<>>, description |-> <<>>, image |-> <<>>, attributes |-> <<>>, timestamp |-> 0]

NoResult ==
  [success |-> FALSE, message |-> <<>>, tokenId |-> 0, minioStatus |-> "none",
   minioImageUrl |-> <<>>, minioMetadataUrl |-> <<>>, fromBlockchain |-> FALSE,
   folderName |-> <<>>]

\* DEFAULT_CONFIG without its layers (the variable layers) and its canvas size
DefaultConfig ==
  [collectionName |-> S_collectionName, description |-> S_description,
   outputDir |-> S_defaultOutputDir, s3Endpoint |-> <<>>, s3BucketName |-> <<>>]

\* a free request slot
IdleReq ==
  [pc |-> "idle", kind |-> "none", tokenId |-> 0, config |-> DefaultConfig,
   attributes |-> <<>>, i |-> 0, drawn |-> <<>>,
   outcome |-> "none", error |-> <<>>,
   imagePath |-> <<>>, metadataPath |-> <<>>, metadata |-> NoMetadata,
   name |-> <<>>, folderName |-> <<>>, fromBlockchain |-> FALSE,
   configValid |-> FALSE, bucketName |-> <<>>, metadataContent |-> NoMetadata,
   response |-> "none", result |-> NoResult]

\* the state one synchronous stretch of a call reads and writes
World(p) ==
  [dirs |-> dirs, files |-> files, bucket |-> bucket, clock |-> clock, r |-> req[p]]

\* slot p takes a new call when it runs none: the previous call's answer is
\* dropped
Free(p) == req[p].pc \in {"idle", "returned"}

Fresh(p) == [World(p) EXCEPT !.r = IdleReq]

\* the stretch ends: its effects, and the n failures the environment dealt it
Commit(p, w, n) ==
  /\ faults + n <= MaxFaults
  /\ faults' = faults + n
  /\ dirs' = w.dirs
  /\ files' = w.files
  /\ bucket' = w.bucket
  /\ clock' = w.clock
  /\ req' = [req EXCEPT ![p] = w.r]
  /\ UNCHANGED <<layers, layerDirs, env, totalSupply, ui, ret>>

\* a stretch of a call under way
Continue(p, w, n) == Commit(p, w, n) /\ UNCHANGED calls

\* the first stretch of a new call
Begin(p, w, n) == Commit(p, w, n) /\ calls < MaxCalls /\ calls' = calls + 1

(***************************************************************************)
(* File system.                                                            *)
(***************************************************************************)
\* fs.ensureDirSync / fs.ensureDir: the directory and its missing ancestors
EnsureDir(p) ==
  {p} \cup {SubSeq(p, 1, k - 1) : k \in {j \in 2..Len(p) : p[j] = "/"}}

\* fs.writeFileSync: create the file or replace its content
WriteFile(f, path, content) ==
  [q \in (DOMAIN f) \cup {path} |-> IF q = path THEN content ELSE f[q]]

\* mutant: the description is written under the key name as well
JSONStringify_misnamed(m) ==
  << [key |-> "name", value |-> m.description],
     [key |-> "description", value |-> m.description],
     [key |-> "image", value |-> m.image],
     [key |-> "attributes", value |-> m.attributes],
     [key |-> "timestamp", value |-> m.timestamp] >>

\* JSON.stringify(metadata, null, 2): the members in insertion order
JSONStringify(m) ==
  << [key |-> "name", value |-> m.name],
     [key |-> "description", value |-> m.description],
     [key |-> "image", value |-> m.image],
     [key |-> "attributes", value |-> m.attributes],
     [key |-> "timestamp", value |-> m.timestamp] >>

\* the value of member key of a JSON text
JSONMember(text, key) ==
  text[CHOOSE k \in 1..Len(text) : text[k].key = key].value

\* JSON.parse / fs.readJson of a metadata file
JSONParse(text) ==
  [name |-> JSONMember(text, "name"),
   description |-> JSONMember(text, "description"),
   image |-> JSONMember(text, "image"),
   attributes |-> JSONMember(text, "attributes"),
   timestamp |-> JSONMember(text, "timestamp")]

(***************************************************************************)
(* generateNFT (utils/nftGenerator): paths and metadata.                   *)
(***************************************************************************)
\* `${tokenId}`
TokenStr(tokenId) == NumToStr(tokenId)

\* the message of a file system error (EIO, ENOSPC, ...)
S_EIO == <<"EIO">>

\* the outcomes of the two writeFileSync calls of one generateNFT call
WriteOutcomes == {"ok", "image fails", "metadata fails"}

\* path.join(config.outputDir, 'images', `${tokenId}.png`)
OutputImagePath(cfg, tokenId) ==
  PathJoin(PathJoin(cfg.outputDir, S_images), TokenStr(tokenId) \o S_dotpng)

\* mutant: the metadata file is put beside the image
OutputMetadataPath_inImages(cfg, tokenId) ==
  PathJoin(PathJoin(cfg.outputDir, S_images), TokenStr(tokenId) \o S_dotjson)

\* path.join(config.outputDir, 'metadata', `${tokenId}.json`)
OutputMetadataPath(cfg, tokenId) ==
  PathJoin(PathJoin(cfg.outputDir, S_metadata), TokenStr(tokenId) \o S_dotjson)

\* mutant: the absolute URL is used as soon as one of the two is given
ImageUrl_either(cfg, tokenId) ==
  IF cfg.s3Endpoint # <<>> \/ cfg.s3BucketName # <<>>
  THEN S_https \o cfg.s3Endpoint \o <<"/">> \o cfg.s3BucketName
         \o S_slashImages \o TokenStr(tokenId) \o S_dotpng
  ELSE TokenStr(tokenId) \o S_dotpng

\* the image field: relative, or absolute when an S3 endpoint and bucket are given
ImageUrl(cfg, tokenId) ==
  IF cfg.s3Endpoint # <<>> /\ cfg.s3BucketName # <<>>
  THEN S_https \o cfg.s3Endpoint \o <<"/">> \o cfg.s3BucketName
         \o S_slashImages \o TokenStr(tokenId) \o S_dotpng
  ELSE TokenStr(tokenId) \o S_dotpng

\* the metadata object generateNFT builds
BuildMetadata(cfg, tokenId, attributes, timestamp) ==
  [name |-> cfg.collectionName \o S_hash \o TokenStr(tokenId),
   description |-> cfg.description,
   image |-> ImageUrl(cfg, tokenId),
   attributes |-> [k \in 1..Len(attributes) |->
                     [trait_type |-> attributes[k].name, value |-> attributes[k].trait]],
   timestamp |-> timestamp]

(***************************************************************************)
(* MinIO configuration (utils/config) and the end of a server action.      *)
(***************************************************************************)
S_ep == <<"s3.io">>

\* process.env without any S3 variable
NoEnv ==
  [S3_ENDPOINT |-> <<>>, S3_API_PORT |-> <<>>, S3_ACCESS_KEY |-> <<>>,
   S3_SECRET_KEY |-> <<>>, S3_BUCKET_NAME |-> <<>>]

\* process.env with endpoint and credentials, port and bucket left to default
S3Env ==
  [S3_ENDPOINT |-> S_ep, S3_API_PORT |-> <<>>, S3_ACCESS_KEY |-> <<"k">>,
   S3_SECRET_KEY |-> <<"s">>, S3_BUCKET_NAME |-> <<>>]

\* getMinioConfig
GetMinioConfig(e) ==
  LET portStr == e.S3_API_PORT
      port == IF portStr # <<>> THEN ParseInt(portStr) ELSE [nan |-> FALSE, n |-> 9000]
  IN [enabled |-> TRUE,
      endPoint |-> e.S3_ENDPOINT,
      port |-> port,
      useSSL |-> (~port.nan /\ port.n = 443),
      accessKey |-> e.S3_ACCESS_KEY,
      secretKey |-> e.S3_SECRET_KEY,
      bucketName |-> IF e.S3_BUCKET_NAME # <<>> THEN e.S3_BUCKET_NAME ELSE S_nftCollection]

\* mutant: the port is not looked at
ValidateMinioConfig_anyPort(c) ==
  /\ c.endPoint # <<>>
  /\ c.accessKey # <<>>
  /\ c.secretKey # <<>>

\* validateMinioConfig
ValidateMinioConfig(c) ==
  /\ c.endPoint # <<>>
  /\ c.accessKey # <<>>
  /\ c.secretKey # <<>>
  /\ ~(c.port.nan \/ c.port.n <= 0)

\* initializeMinioClient returns a client (not null); created says whether
\* new Minio.Client(...) returned without throwing
InitializeMinioClient(c, created) ==
  /\ c.enabled
  /\ c.endPoint # <<>> /\ c.accessKey # <<>> /\ c.secretKey # <<>>
  /\ created

\* the URL uploadToMinio returns for an object
ObjectUrl(endpoint, bucketName, targetKey) ==
  S_https \o endpoint \o <<"/">> \o bucketName \o <<"/">> \o targetKey

\* getMinioUrls with the default (empty) folderPath
GetMinioUrls(c, tokenId) ==
  [imageUrl |-> S_https \o c.endPoint \o <<"/">> \o c.bucketName
                  \o S_slashImages \o NumToStr(tokenId) \o S_dotpng,
   metadataUrl |-> S_https \o c.endPoint \o <<"/">> \o c.bucketName
                     \o S_slashMetadata \o NumToStr(tokenId) \o S_dotjson]

\* a server action returns { success: false, message }
Fail(w, message) ==
  [w EXCEPT !.r.pc = "returned", !.r.result = [NoResult EXCEPT !.message = message]]

\* mutant: every server action returns the MinIO URLs after an upload
Finish_urlsAlways(w, minioStatus) ==
  LET urls == GetMinioUrls(GetMinioConfig(env), w.r.tokenId)
      given == minioStatus = "success"
  IN [w EXCEPT !.r.pc = "returned",
               !.r.result = [success |-> TRUE, message |-> <<>>,
                             tokenId |-> w.r.tokenId, minioStatus |-> minioStatus,
                             minioImageUrl |-> IF given THEN urls.imageUrl ELSE <<>>,
                             minioMetadataUrl |-> IF given THEN urls.metadataUrl ELSE <<>>,
                             fromBlockchain |-> w.r.fromBlockchain,
                             folderName |-> w.r.folderName]]

\* a server action returns { success: true, tokenId, minioStatus, ... }; the
\* text of the success message is left out
Finish(w, minioStatus) ==
  LET urls == GetMinioUrls(GetMinioConfig(env), w.r.tokenId)
      given == w.r.kind = "upload" /\ minioStatus = "success"
  IN [w EXCEPT !.r.pc = "returned",
               !.r.result = [success |-> TRUE, message |-> <<>>,
                             tokenId |-> w.r.tokenId, minioStatus |-> minioStatus,
                             minioImageUrl |-> IF given THEN urls.imageUrl ELSE <<>>,
                             minioMetadataUrl |-> IF given THEN urls.metadataUrl ELSE <<>>,
                             fromBlockchain |-> w.r.fromBlockchain,
                             folderName |-> w.r.folderName]]

\* uploadNFTToMinio up to its first await: the client, then the connection test
UploadBegin(w, created) ==
  LET c == [GetMinioConfig(env) EXCEPT !.bucketName = w.r.bucketName]
  IN IF ~InitializeMinioClient(c, created) THEN Finish(w, "failed")
     ELSE [w EXCEPT !.r.pc = "up_connect"]

(***************************************************************************)
(* generateNFT, continued.                                                 *)
(***************************************************************************)
\* what the environment deals one run of generateNFT to its end: the instant
\* new Date() gives, the outcome of the writes, whether the MinIO client of
\* the upload that follows can be created
DefaultIo == [t |-> clock, wr |-> "ok", created |-> TRUE]

Ios == [t : clock..MaxClock, wr : WriteOutcomes, created : BOOLEAN]

FaultsOf(io) == (IF io.wr # "ok" THEN 1 ELSE 0) + (IF io.created THEN 0 ELSE 1)

\* generateNFT rejects: its caller gets the error; a server action catches it
\* and returns its failure
Throw(w, message) ==
  LET w1 == [w EXCEPT !.r.pc = "returned", !.r.outcome = "rejected", !.r.error = message]
  IN IF w.r.kind = "direct" THEN w1
     ELSE Fail(w1, (IF w.r.kind = "create" THEN S_errCreate ELSE S_errGen) \o message)

\* what follows the return of generateNFT in its caller: the upload when the
\* MinIO configuration is valid
AfterGenerate(w, io) ==
  LET c == GetMinioConfig(env)
      valid == ValidateMinioConfig(c)
      bucketName == IF w.r.kind = "upload" THEN c.bucketName
                    ELSE c.bucketName \o S_slashCollections \o w.r.folderName
      w1 == [w EXCEPT !.r.configValid = valid, !.r.bucketName = bucketName]
  IN IF w.r.kind = "direct" THEN [w EXCEPT !.r.pc = "returned"]
     ELSE IF valid THEN UploadBegin(w1, io.created)
     ELSE Finish(w1, "skipped")

\* mutant: the metadata file is written before the image file
GenerateFinish_metadataFirst(w, io) ==
  LET cfg == w.r.config
      tokenId == w.r.tokenId
      buffer == [drawn |-> w.r.drawn, timestamp |-> io.t]
      metadata == BuildMetadata(cfg, tokenId, w.r.attributes, io.t)
      w1 == [w EXCEPT !.clock = io.t]
      w2 == [w1 EXCEPT !.files = WriteFile(@, OutputMetadataPath(cfg, tokenId),
                                           JSONStringify(metadata))]
      w3 == [w2 EXCEPT !.files = WriteFile(@, OutputImagePath(cfg, tokenId), buffer)]
  IN IF io.wr = "metadata fails" THEN Throw(w1, S_EIO)
     ELSE IF io.wr = "image fails" THEN Throw(w2, S_EIO)
     ELSE AfterGenerate([w3 EXCEPT !.r.outcome = "fulfilled",
                                   !.r.imagePath = OutputImagePath(cfg, tokenId),
                                   !.r.metadataPath = OutputMetadataPath(cfg, tokenId),
                                   !.r.metadata = metadata], io)

\* generateNFT from the timestamp on: timestamp, image file, metadata, metadata
\* file, return
GenerateFinish(w, io) ==
  LET cfg == w.r.config
      tokenId == w.r.tokenId
      buffer == [drawn |-> w.r.drawn, timestamp |-> io.t]
      metadata == BuildMetadata(cfg, tokenId, w.r.attributes, io.t)
      w1 == [w EXCEPT !.clock = io.t]
      w2 == [w1 EXCEPT !.files = WriteFile(@, OutputImagePath(cfg, tokenId), buffer)]
      w3 == [w2 EXCEPT !.files = WriteFile(@, OutputMetadataPath(cfg, tokenId),
                                           JSONStringify(metadata))]
  IN IF io.wr = "image fails" THEN Throw(w1, S_EIO)
     ELSE IF io.wr = "metadata fails" THEN Throw(w2, S_EIO)
     ELSE AfterGenerate([w3 EXCEPT !.r.outcome = "fulfilled",
                                   !.r.imagePath = OutputImagePath(cfg, tokenId),
                                   !.r.metadataPath = OutputMetadataPath(cfg, tokenId),
                                   !.r.metadata = metadata], io)

\* mutant: the combination is drawn before the output directories are made
GenerateBegin_checkFirst(w, rnd, io) ==
  LET cfg == w.r.config
      w1 == [w EXCEPT !.dirs = @ \cup EnsureDir(PathJoin(cfg.outputDir, S_images))
                                 \cup EnsureDir(PathJoin(cfg.outputDir, S_metadata))]
      c == CreateRandomCombination(layers, layerDirs, rnd)
  IN IF ~c.ok THEN Throw(w, c.message)
     ELSE IF Len(c.combination) = 0 THEN GenerateFinish(w1, io)
     ELSE [w1 EXCEPT !.r.attributes = c.combination, !.r.i = 1, !.r.pc = "gen_draw"]

\* generateNFT up to its first await: the output directories, the canvas, the
\* combination; with nothing to draw it runs on to the end
GenerateBegin(w, rnd, io) ==
  LET cfg == w.r.config
      w1 == [w EXCEPT !.dirs = @ \cup EnsureDir(PathJoin(cfg.outputDir, S_images))
                                 \cup EnsureDir(PathJoin(cfg.outputDir, S_metadata))]
      c == CreateRandomCombination(layers, layerDirs, rnd)
  IN IF ~c.ok THEN Throw(w1, c.message)
     ELSE IF Len(c.combination) = 0 THEN GenerateFinish(w1, io)
     ELSE [w1 EXCEPT !.r.attributes = c.combination, !.r.i = 1, !.r.pc = "gen_draw"]

\* the draws Math.random() makes in one call, one per layer
RandomDraws == [1..Len(layers) -> 0..(RandRes - 1)]

\* what the environment can deal the stretch that starts generateNFT: it
\* matters only when no layer has an image and none is required
BeginIos ==
  IF \A k \in 1..Len(layers) :
       ~layers[k].required /\ Len(GetImagesForLayer(layers[k], layerDirs)) = 0
  THEN Ios ELSE {DefaultIo}

\* mutant: an image that cannot be loaded makes generateNFT reject
GenerateDraw_abort(p) ==
  /\ req[p].pc = "gen_draw"
  /\ \E loaded \in BOOLEAN :
       LET r == req[p]
           w == World(p)
           w1 == [w EXCEPT !.r.drawn = IF loaded THEN Append(@, r.attributes[r.i].path) ELSE @,
                           !.r.i = r.i + 1]
       IN IF ~loaded THEN Continue(p, Throw(w1, <<"load">>), 1)
          ELSE IF r.i < Len(r.attributes) THEN Continue(p, w1, 0)
          ELSE \E io \in Ios : Continue(p, GenerateFinish(w1, io), FaultsOf(io))

\* loadImage of the i-th selected layer settles: the image is drawn, or the
\* failure is logged and the layer skipped; after the last layer generateNFT
\* runs on to the end
GenerateDraw(p) ==
  /\ req[p].pc = "gen_draw"
  /\ \E loaded \in BOOLEAN :
       LET r == req[p]
           w == World(p)
           w1 == [w EXCEPT !.r.drawn = IF loaded THEN Append(@, r.attributes[r.i].path) ELSE @,
                           !.r.i = r.i + 1]
           n == IF loaded THEN 0 ELSE 1
       IN IF r.i < Len(r.attributes)
          THEN Continue(p, w1, n)
          ELSE \E io \in Ios : Continue(p, GenerateFinish(w1, io), n + FaultsOf(io))

\* a caller invokes generateNFT(tokenId, config), once, with DEFAULT_CONFIG and
\* any combination of the optional s3Endpoint and s3BucketName
DirectGenerate(p) ==
  /\ req[p].pc = "idle"
  /\ \E tokenId \in 1..(MaxSupply + 1), ep \in {<<>>, S_ep}, bk \in {<<>>, S_nftCollection},
        rnd \in RandomDraws, io \in BeginIos :
       LET w == [World(p) EXCEPT !.r.kind = "direct", !.r.tokenId = tokenId,
                                 !.r.config.s3Endpoint = ep,
                                 !.r.config.s3BucketName = bk]
       IN Begin(p, GenerateBegin(w, rnd, io), FaultsOf(io))

(***************************************************************************)
(* uploadNFTToMinio (utils/minioClient), one action per awaited operation. *)
(***************************************************************************)
\* MinIO with the object stored under its URL
PutObject(b, url, content) ==
  [u \in (DOMAIN b) \cup {url} |-> IF u = url THEN content ELSE b[u]]

\* testMinioConnection (listBuckets) settles
UploadConnect(p) ==
  /\ req[p].pc = "up_connect"
  /\ \E connected \in BOOLEAN :
       IF connected
       THEN Continue(p, [World(p) EXCEPT !.r.pc = "up_image"], 0)
       ELSE Continue(p, Finish(World(p), "failed"), 1)

\* uploadToMinio of the image settles: the object is stored, or the error is
\* caught and null returned
UploadImage(p) ==
  /\ req[p].pc = "up_image"
  /\ \E put \in BOOLEAN :
       LET r == req[p]
           w == World(p)
           endPoint == GetMinioConfig(env).endPoint
           url == ObjectUrl(endPoint, r.bucketName,
                            S_images \o <<"/">> \o Basename(r.imagePath))
           w1 == [w EXCEPT !.r.pc = "up_read"]
       IN IF put /\ r.imagePath \in DOMAIN files
          THEN Continue(p, [w1 EXCEPT !.bucket = PutObject(@, url, files[r.imagePath])], 0)
          ELSE Continue(p, w1, IF put THEN 0 ELSE 1)

\* mutant: the metadata is rewritten whatever its image field is
NeedsAbsoluteUrl_always(image) == image # <<>>

\* metadataContent.image && !metadataContent.image.startsWith('http')
NeedsAbsoluteUrl(image) == image # <<>> /\ ~StartsWith(image, S_http)

\* fs.readJson of the metadata file settles: a relative image field is made
\* absolute and the file is to be written back; a failure is only logged
UploadReadMetadata(p) ==
  /\ req[p].pc = "up_read"
  /\ \E read \in BOOLEAN :
       LET r == req[p]
           w == World(p)
           endPoint == GetMinioConfig(env).endPoint
           content == JSONParse(files[r.metadataPath])
           absolute == S_https \o endPoint \o <<"/">> \o r.bucketName
                         \o S_slashImages \o Basename(r.imagePath)
       IN IF read /\ r.metadataPath \in DOMAIN files
          THEN IF NeedsAbsoluteUrl(content.image)
               THEN Continue(p, [w EXCEPT !.r.pc = "up_write",
                                          !.r.metadataContent =
                                             [content EXCEPT !.image = absolute]], 0)
               ELSE Continue(p, [w EXCEPT !.r.pc = "up_metadata"], 0)
          ELSE Continue(p, [w EXCEPT !.r.pc = "up_metadata"], IF read THEN 0 ELSE 1)

\* fs.writeJson of the updated metadata settles; a failure is only logged
UploadWriteMetadata(p) ==
  /\ req[p].pc = "up_write"
  /\ \E written \in BOOLEAN :
       LET r == req[p]
           w == [World(p) EXCEPT !.r.pc = "up_metadata"]
       IN IF written
          THEN Continue(p, [w EXCEPT !.files = WriteFile(@, r.metadataPath,
                                                        JSONStringify(r.metadataContent))], 0)
          ELSE Continue(p, w, 1)

\* uploadToMinio of the metadata settles; uploadNFTToMinio returns true and
\* the server action returns
UploadMetadata(p) ==
  /\ req[p].pc = "up_metadata"
  /\ \E put \in BOOLEAN :
       LET r == req[p]
           w == World(p)
           endPoint == GetMinioConfig(env).endPoint
           url == ObjectUrl(endPoint, r.bucketName,
                            S_metadata \o <<"/">> \o Basename(r.metadataPath))
       IN IF put /\ r.metadataPath \in DOMAIN files
          THEN Continue(p, Finish([w EXCEPT !.bucket = PutObject(@, url, files[r.metadataPath])],
                                  "success"), 0)
          ELSE Continue(p, Finish(w, "success"), IF put THEN 0 ELSE 1)

(***************************************************************************)
(* The server actions (app/actions.ts).                                    *)
(***************************************************************************)
\* the answers of the total-supply endpoint: a network error, a status that is
\* not OK, or a JSON body: the bare number, an object with totalSupply as a
\* decimal string, an object without any supply field
Responses == {"network error", "not ok", "number", "totalSupply string", "no supply field"}

\* the further bodies of an ok response: the supply under each of the keys,
\* as a number or as a decimal string
SupplyResponses ==
  {"totalSupply number", "total number", "total string", "supply number", "supply string",
   "count number", "count string", "value number", "value string"}

\* the key and the form of the supply in an object body
ResponseShape(response) ==
  CASE response = "totalSupply string" -> [key |-> "totalSupply", string |-> TRUE]
    [] response = "totalSupply number" -> [key |-> "totalSupply", string |-> FALSE]
    [] response = "total string" -> [key |-> "total", string |-> TRUE]
    [] response = "total number" -> [key |-> "total", string |-> FALSE]
    [] response = "supply string" -> [key |-> "supply", string |-> TRUE]
    [] response = "supply number" -> [key |-> "supply", string |-> FALSE]
    [] response = "count string" -> [key |-> "count", string |-> TRUE]
    [] response = "count number" -> [key |-> "count", string |-> FALSE]
    [] response = "value string" -> [key |-> "value", string |-> TRUE]
    [] response = "value number" -> [key |-> "value", string |-> FALSE]
    [] OTHER -> [key |-> "message", string |-> TRUE]

\* a JSON number, a JSON string, and the undefined of a let without value
JSONNumber(n) == [type |-> "number", n |-> n, s |-> <<>>]
JSONString(str) == [type |-> "string", n |-> 0, s |-> str]
Undefined == [type |-> "undefined", n |-> 0, s |-> <<>>]

\* response.json(): the number itself, or an object with one member
ResponseBody(response, supply) ==
  IF response = "number" THEN [type |-> "number", n |-> supply, members |-> <<>>]
  ELSE [type |-> "object", n |-> 0,
        members |-> << [key |-> ResponseShape(response).key,
                        value |-> IF ResponseShape(response).string
                                  THEN JSONString(NumToStr(supply))
                                  ELSE JSONNumber(supply)] >>]

\* the keys looked for in an object body, in the order of the else-if chain
SupplyKeys == <<"totalSupply", "total", "supply", "count", "value">>

\* let totalSupply: the number itself, the first of the keys the object has,
\* undefined without any of them
TotalSupplyOf(result) ==
  IF result.type = "number" THEN JSONNumber(result.n)
  ELSE LET present == {k \in 1..Len(SupplyKeys) :
                         \E m \in 1..Len(result.members) :
                           result.members[m].key = SupplyKeys[k]}
       IN IF present = {} THEN Undefined
          ELSE JSONMember(result.members,
                          SupplyKeys[CHOOSE k \in present : \A j \in present : k <= j])

\* mutant: a string is not parsed, so that adding 1 appends the digit 1
NumericTotalSupply_concat(response, supply) ==
  IF TotalSupplyOf(ResponseBody(response, supply)).type = "string"
  THEN 10 * supply
  ELSE supply

\* the total supply read from the body, as a number
NumericTotalSupply(response, supply) ==
  LET t == TotalSupplyOf(ResponseBody(response, supply))
  IN IF t.type = "string" THEN ParseInt(t.s).n ELSE t.n

\* no supply is obtained: the fetch rejects, the response is not ok, or the
\* body has none of the keys
SupplyMissing(response, supply) ==
  \/ response \in {"network error", "not ok"}
  \/ TotalSupplyOf(ResponseBody(response, supply)).type = "undefined"

\* generateAndUploadNFT is called: the MinIO configuration is read and
\* checked, the total supply requested
UploadStart(p) ==
  /\ Free(p)
  /\ Begin(p, [Fresh(p) EXCEPT !.r.kind = "upload", !.r.pc = "fetch",
                               !.r.configValid = ValidateMinioConfig(GetMinioConfig(env))], 0)

\* mutant: without a supply the action goes on with token id 1
UploadFetched_fallback(p) ==
  /\ req[p].pc = "fetch"
  /\ \E response \in Responses, rnd \in RandomDraws, io \in BeginIos :
       LET r == req[p]
           w == [World(p) EXCEPT !.r.response = response]
           c == GetMinioConfig(env)
           nextTokenId == NumericTotalSupply(response, totalSupply) + 1
           customConfig ==
             [DefaultConfig EXCEPT
                !.outputDir = S_outputDir,
                !.s3Endpoint = IF r.configValid THEN c.endPoint ELSE <<>>,
                !.s3BucketName = IF r.configValid THEN c.bucketName ELSE <<>>]
       IN IF response \in {"network error", "not ok", "no supply field"}
          THEN /\ io = DefaultIo
               /\ Continue(p, GenerateBegin(
                                 [w EXCEPT !.r.tokenId = 1,
                                           !.r.config = customConfig], rnd, io), 1)
          ELSE Continue(p, GenerateBegin([w EXCEPT !.r.tokenId = nextTokenId,
                                                   !.r.fromBlockchain = TRUE,
                                                   !.r.config = customConfig], rnd, io),
                        FaultsOf(io))

\* the total-supply request settles: without a supply the action returns its
\* failure; with one, the next token id is the supply plus one and generateNFT
\* is called with the S3 endpoint and bucket when the configuration is valid
UploadFetchedFrom(p, responses) ==
  /\ req[p].pc = "fetch"
  /\ \E response \in responses, rnd \in RandomDraws, io \in BeginIos :
       LET r == req[p]
           w == [World(p) EXCEPT !.r.response = response]
           c == GetMinioConfig(env)
           nextTokenId == NumericTotalSupply(response, totalSupply) + 1
           customConfig ==
             [DefaultConfig EXCEPT
                !.outputDir = S_outputDir,
                !.s3Endpoint = IF r.configValid THEN c.endPoint ELSE <<>>,
                !.s3BucketName = IF r.configValid THEN c.bucketName ELSE <<>>]
       IN IF SupplyMissing(response, totalSupply)
          THEN /\ io = DefaultIo
               /\ Continue(p, Fail(w, S_failTokenId), 1)
          ELSE Continue(p, GenerateBegin([w EXCEPT !.r.tokenId = nextTokenId,
                                                   !.r.fromBlockchain = TRUE,
                                                   !.r.config = customConfig], rnd, io),
                        FaultsOf(io))

\* the total-supply request of generateAndUploadNFT settles
UploadFetched(p) == UploadFetchedFrom(p, Responses)

\* the same with every body generateAndUploadNFT accepts
UploadFetchedAll(p) == UploadFetchedFrom(p, Responses \cup SupplyResponses)

\* the names given to createNewCollection
CollectionNames == {<<" ", "A", "\t", " ", "b", "_", "!">>, <<" ", "!", "_">>}

\* mutant: the characters that are unsafe in a folder name are kept
Sanitize_keepUnsafe(collectionName) ==
  ReplaceSpaceRuns(ToLowerCase(Trim(collectionName)))

\* the folder name createNewCollection derives from a collection name
Sanitize(collectionName) ==
  RemoveUnsafe(ReplaceSpaceRuns(ToLowerCase(Trim(collectionName))))

\* path.join(process.cwd(), 'public/collections', folderName)
CollectionDir(folderName) == PathJoin(S_collectionsDir, folderName)

\* createNewCollection is called: a name that sanitizes to nothing is
\* refused, otherwise the collection directories are asked for
CreateStart(p) ==
  /\ Free(p)
  /\ \E collectionName \in CollectionNames :
       LET folderName == Sanitize(collectionName)
           w == [Fresh(p) EXCEPT !.r.kind = "create", !.r.name = collectionName,
                                 !.r.folderName = folderName]
       IN IF folderName = <<>>
          THEN Begin(p, Fail(w, S_invalidName), 0)
          ELSE Begin(p, [w EXCEPT !.r.pc = "create_dirs"], 0)

\* the two fs.ensureDir calls have settled: generateNFT is called for token 1
\* of the collection, without S3 endpoint or bucket
CreateDirs(p) ==
  /\ req[p].pc = "create_dirs"
  /\ \E rnd \in RandomDraws, io \in BeginIos :
       LET r == req[p]
           baseOutputDir == CollectionDir(r.folderName)
           collectionConfig ==
             [DefaultConfig EXCEPT !.collectionName = r.name,
                                   !.description = r.name \o S_uniqueSuffix,
                                   !.outputDir = baseOutputDir]
           w == [World(p) EXCEPT
                   !.dirs = @ \cup EnsureDir(PathJoin(baseOutputDir, S_images))
                              \cup EnsureDir(PathJoin(baseOutputDir, S_metadata)),
                   !.r.tokenId = 1,
                   !.r.config = collectionConfig]
       IN Continue(p, GenerateBegin(w, rnd, io), FaultsOf(io))

\* the folder names given to generateNFTForCollection
FolderNames == {<<"a", "-", "b">>}

\* folderName.replace(/-/g, ' ')
DashesToSpaces(s) == [i \in 1..Len(s) |-> IF s[i] = "-" THEN " " ELSE s[i]]

\* s.replace(/\b\w/g, c => c.toUpperCase()): the first character of every word
Capitalize(s) ==
  [i \in 1..Len(s) |->
     IF s[i] \in WordChars /\ (i = 1 \/ s[i - 1] \notin WordChars)
     THEN ToUpperChar(s[i]) ELSE s[i]]

\* the entries of a directory (fs.readdir)
ReadDir(f, dir) == {Basename(q) : q \in {x \in DOMAIN f : Dirname(x) = dir}}

\* mutant: the scan looks at the metadata directory
ImagesDir_metadata(outputDir) == PathJoin(outputDir, S_metadata)

\* path.join(outputDir, 'images')
ImagesDir(outputDir) == PathJoin(outputDir, S_images)

\* getLastNFTNumber when the directory can be read: the highest N of the
\* entries N.png, 0 without any
GetLastNFTNumber(f, outputDir) ==
  LET pngs == {e \in ReadDir(f, ImagesDir(outputDir)) : EndsWith(e, S_dotpng)}
      nftNumbers == {ParseInt(RemoveFirstDotPng(e)).n :
                       e \in {x \in pngs : ~ParseInt(RemoveFirstDotPng(x)).nan}}
  IN IF nftNumbers = {} THEN 0
     ELSE CHOOSE m \in nftNumbers : \A k \in nftNumbers : k <= m

\* generateNFTForCollection is called: a collection whose directory does not
\* exist is refused, otherwise its images directory is scanned
CollectionStart(p) ==
  /\ Free(p)
  /\ \E folderName \in FolderNames :
       LET w == [Fresh(p) EXCEPT !.r.kind = "collection", !.r.folderName = folderName]
       IN IF CollectionDir(folderName) \notin dirs
          THEN Begin(p, Fail(w, S_notExistPrefix \o folderName \o S_notExistSuffix), 0)
          ELSE Begin(p, [w EXCEPT !.r.pc = "scan"], 0)

\* getLastNFTNumber settles (0 when the directory could not be read): the next
\* token id is one more, and generateNFT is called with the S3 endpoint and
\* bucket when the configuration is valid
CollectionScanned(p) ==
  /\ req[p].pc = "scan"
  /\ \E scanned \in BOOLEAN, rnd \in RandomDraws, io \in BeginIos :
       LET r == req[p]
           baseOutputDir == CollectionDir(r.folderName)
           lastTokenId == IF scanned THEN GetLastNFTNumber(files, baseOutputDir) ELSE 0
           c == GetMinioConfig(env)
           configValid == ValidateMinioConfig(c)
           collectionConfig ==
             [DefaultConfig EXCEPT
                !.collectionName = Capitalize(DashesToSpaces(r.folderName)),
                !.description = S_partOf \o DashesToSpaces(r.folderName) \o S_collectionSuffix,
                !.outputDir = baseOutputDir,
                !.s3Endpoint = IF configValid THEN c.endPoint ELSE <<>>,
                !.s3BucketName = IF configValid THEN c.bucketName ELSE <<>>]
           w == [World(p) EXCEPT
                   !.dirs = IF scanned THEN @ \cup EnsureDir(ImagesDir(baseOutputDir)) ELSE @,
                   !.r.tokenId = lastTokenId + 1,
                   !.r.configValid = configValid,
                   !.r.config = collectionConfig]
       IN Continue(p, GenerateBegin(w, rnd, io), FaultsOf(io) + IF scanned THEN 0 ELSE 1)

\* a token is minted on the chain: the total supply grows by one
Mint ==
  /\ totalSupply < MaxSupply
  /\ totalSupply' = totalSupply + 1
  /\ UNCHANGED <<layers, layerDirs, env, dirs, files, bucket, clock, req, calls, faults, ui, ret>>

(***************************************************************************)
(* The Web3AuthNFTMinter component (its mint handler) and mintNFT           *)
(* (utils/web3auth).                                                       *)
(***************************************************************************)
S_connectFirst == <<"Please connect your wallet first">>
S_mintFailed == <<"Mint transaction failed">>
S_noProvider == <<"Provider not available">>
S_reverted == <<"execution reverted">>

\* nothing returned: the function specifications are not running
NoRet == [pc |-> "none"]

\* the component before any click, nobody logged in
NoUi ==
  [pc |-> "idle", web3auth |-> FALSE, walletAddress |-> FALSE, mintResult |-> "none",
   isMinting |-> FALSE, isGenerating |-> FALSE, error |-> <<>>, result |-> NoResult]

\* how a mintNFT call can end: it throws before the transaction, it returns
\* success false with or without an error text, it returns success true
MintOutcomes == {"throws", "fails", "fails silently", "success"}

\* the error of a mintNFT call that did not succeed, as the handler shows it
MintError(outcome) ==
  IF outcome = "throws" THEN S_noProvider
  ELSE IF outcome = "fails" THEN S_reverted
  ELSE S_mintFailed

\* the mint button is clicked: without web3auth or wallet address the handler
\* sets the error and returns, otherwise it calls mintNFT
HandleMintNFT ==
  /\ ui.pc = "idle"
  /\ ui' = IF ~ui.web3auth \/ ~ui.walletAddress
            THEN [ui EXCEPT !.error = S_connectFirst, !.mintResult = "none"]
            ELSE [ui EXCEPT !.pc = "minting", !.isMinting = TRUE, !.error = <<>>,
                            !.mintResult = "none"]
  /\ UNCHANGED <<layers, layerDirs, env, dirs, files, bucket, totalSupply, clock, req,
                 calls, faults, ret>>

\* mutant: the handler goes on to the generation whatever mintNFT returned
MintNFTSettles_regardless ==
  /\ ui.pc = "minting"
  /\ \E outcome \in MintOutcomes :
       ui' = IF outcome # "throws"
             THEN [ui EXCEPT !.pc = "awaiting", !.mintResult = outcome,
                             !.isGenerating = TRUE]
             ELSE [ui EXCEPT !.pc = "idle", !.mintResult = outcome,
                             !.error = MintError(outcome),
                             !.isMinting = FALSE, !.isGenerating = FALSE]
  /\ UNCHANGED <<layers, layerDirs, env, dirs, files, bucket, totalSupply, clock, req,
                 calls, faults, ret>>

\* mintNFT settles: after success the handler calls generateAndUploadNFT and
\* awaits it; otherwise the error is caught and shown, the flags are reset
MintNFTSettles ==
  /\ ui.pc = "minting"
  /\ \E outcome \in MintOutcomes :
       ui' = IF outcome = "success"
             THEN [ui EXCEPT !.pc = "awaiting", !.mintResult = outcome,
                             !.isGenerating = TRUE]
             ELSE [ui EXCEPT !.pc = "idle", !.mintResult = outcome,
                             !.error = MintError(outcome),
                             !.isMinting = FALSE, !.isGenerating = FALSE]
  /\ UNCHANGED <<layers, layerDirs, env, dirs, files, bucket, totalSupply, clock, req,
                 calls, faults, ret>>

\* the server takes up the generateAndUploadNFT call the handler made
GenerationStarts ==
  /\ ui.pc = "awaiting"
  /\ req[1].pc = "idle"
  /\ UploadStart(1)

\* generateAndUploadNFT has returned: the handler stores the result, shows
\* the message of a failure, resets the flags
GenerationSettles ==
  /\ ui.pc = "awaiting"
  /\ req[1].pc = "returned"
  /\ ui' = [ui EXCEPT !.pc = "idle", !.result = req[1].result,
                      !.error = IF req[1].result.success THEN <<>>
                                ELSE req[1].result.message,
                      !.isMinting = FALSE, !.isGenerating = FALSE]
  /\ req' = [req EXCEPT ![1] = IdleReq]
  /\ UNCHANGED <<layers, layerDirs, env, dirs, files, bucket, totalSupply, clock,
                 calls, faults, ret>>

\* the missing subjects folder is put in place, with its files
FillLayerFolder ==
  /\ ~layerDirs[S_subjFolder].exists
  /\ layerDirs' = [layerDirs EXCEPT ![S_subjFolder] =
                                      [exists |-> TRUE, files |-> <<F_n, F_B>>]]
  /\ UNCHANGED <<layers, env, dirs, files, bucket, totalSupply, clock, req, calls, faults, ui, ret>>

(***************************************************************************)
(* The application: the server actions, two requests at a time.            *)
(***************************************************************************)
\* the layer folders as deployed: one background, one subject beside another
\* file; or the subjects missing
DeployedFolders ==
  { (S_bgFolder :> [exists |-> TRUE, files |-> <<F_a>>])
      @@ (S_subjFolder :> [exists |-> TRUE, files |-> <<F_n, F_B>>]),
    (S_bgFolder :> [exists |-> TRUE, files |-> <<F_a>>])
      @@ (S_subjFolder :> [exists |-> FALSE, files |-> <<>>]) }

\* the directories on disk at the start: none, or those of the collection
\* a-b, as createNewCollection leaves them when its image write fails
InitialDirs ==
  { {},
    EnsureDir(PathJoin(CollectionDir(<<"a", "-", "b">>), S_images))
      \cup EnsureDir(PathJoin(CollectionDir(<<"a", "-", "b">>), S_metadata)) }

Init ==
  /\ layers = DefaultLayers
  /\ layerDirs \in DeployedFolders
  /\ env \in {NoEnv, S3Env}
  /\ dirs \in InitialDirs
  /\ files = <<>>
  /\ bucket = <<>>
  /\ totalSupply = 0
  /\ clock = 0
  /\ req = [p \in Procs |-> IdleReq]
  /\ calls = 0
  /\ faults = 0
  /\ ui = NoUi
  /\ ret = NoRet

\* the steps of the request in slot p
Request(p) ==
  \/ UploadStart(p)
  \/ UploadFetched(p)
  \/ CreateStart(p)
  \/ CreateDirs(p)
  \/ CollectionStart(p)
  \/ CollectionScanned(p)
  \/ GenerateDraw(p)
  \/ UploadConnect(p)
  \/ UploadImage(p)
  \/ UploadReadMetadata(p)
  \/ UploadWriteMetadata(p)
  \/ UploadMetadata(p)

Next == Mint \/ FillLayerFolder \/ \E p \in Procs : Request(p)

Spec == Init /\ [][Next]_vars

\* the server actions called one after the other: a single slot
SeqNext == Mint \/ FillLayerFolder \/ Request(1)

SeqSpec == Init /\ [][SeqNext]_vars

\* the mint flow of the component: clicks on the mint button of a page where
\* nobody, a user without wallet address or a user with one is logged in
MintInit ==
  /\ layers = DefaultLayers
  /\ layerDirs \in DeployedFolders
  /\ env \in {NoEnv, S3Env}
  /\ dirs = {}
  /\ files = <<>>
  /\ bucket = <<>>
  /\ totalSupply = 0
  /\ clock = 0
  /\ req = [p \in Procs |-> IdleReq]
  /\ calls = 0
  /\ faults = 0
  /\ \E login \in {<<FALSE, FALSE>>, <<TRUE, FALSE>>, <<TRUE, TRUE>>} :
       ui = [NoUi EXCEPT !.web3auth = login[1], !.walletAddress = login[2]]
  /\ ret = NoRet

MintNext ==
  \/ HandleMintNFT
  \/ MintNFTSettles
  \/ GenerationStarts
  \/ UploadFetched(1)
  \/ GenerateDraw(1)
  \/ UploadConnect(1)
  \/ UploadImage(1)
  \/ UploadReadMetadata(1)
  \/ UploadMetadata(1)
  \/ GenerationSettles
  \/ Mint
  \/ FillLayerFolder

MintSpec == MintInit /\ [][MintNext]_vars

(***************************************************************************)
(* getMinioConfig and validateMinioConfig as functions of process.env.      *)
(***************************************************************************)
\* the values of S3_API_PORT tried: unset, 443, 9000, 80 after a blank, 0,
\* -1, 443 followed by a letter, and no number at all
PortStrings ==
  {<<>>, <<"4", "4", "3">>, <<"9", "0", "0", "0">>, <<" ", "8", "0">>, <<"0">>,
   <<"-", "1">>, <<"4", "4", "3", "x">>, <<"a">>}

Envs ==
  [S3_ENDPOINT : {<<>>, S_ep}, S3_API_PORT : PortStrings, S3_ACCESS_KEY : {<<>>, <<"k">>},
   S3_SECRET_KEY : {<<>>, <<"s">>}, S3_BUCKET_NAME : {<<>>, <<"b">>}]

ConfigInit ==
  /\ layers = DefaultLayers
  /\ layerDirs = [l \in {} |-> <<>>]
  /\ env \in Envs
  /\ dirs = {}
  /\ files = <<>>
  /\ bucket = <<>>
  /\ totalSupply = 0
  /\ clock = 0
  /\ req = [p \in Procs |-> IdleReq]
  /\ calls = 0
  /\ faults = 0
  /\ ui = NoUi
  /\ ret = [pc |-> "start", config |-> GetMinioConfig(NoEnv), valid |-> FALSE]

\* const config = getMinioConfig()
ConfigGet ==
  /\ ret.pc = "start"
  /\ ret' = [ret EXCEPT !.pc = "config", !.config = GetMinioConfig(env)]
  /\ UNCHANGED <<layers, layerDirs, env, dirs, files, bucket, totalSupply, clock, req,
                 calls, faults, ui>>

\* validateMinioConfig(config)
ConfigValidate ==
  /\ ret.pc = "config"
  /\ ret' = [ret EXCEPT !.pc = "validated", !.valid = ValidateMinioConfig(ret.config)]
  /\ UNCHANGED <<layers, layerDirs, env, dirs, files, bucket, totalSupply, clock, req,
                 calls, faults, ui>>

ConfigNext == ConfigGet \/ ConfigValidate

ConfigSpec == ConfigInit /\ [][ConfigNext]_vars

(***************************************************************************)
(* getLastNFTNumber as a function of what the images directory holds.       *)
(***************************************************************************)
\* the entries the images directory can hold: numbered PNGs, a number
\* followed by a letter, an upper-case extension, a name without number, a
\* metadata file, a doubled extension
ImageNames ==
  {<<"1", ".", "p", "n", "g">>, <<"2", ".", "p", "n", "g">>, <<"1", "0", ".", "p", "n", "g">>,
   <<"3", "a", ".", "p", "n", "g">>, <<"4", ".", "P", "N", "G">>, F_a,
   <<"5", ".", "j", "s", "o", "n">>, <<"6", ".", "p", "n", "g", ".", "p", "n", "g">>}

ScanInit ==
  /\ layers = DefaultLayers
  /\ layerDirs = [l \in {} |-> <<>>]
  /\ env = NoEnv
  /\ \E names \in SUBSET ImageNames :
       /\ files = [q \in {PathJoin(ImagesDir(S_outputDir), nm) : nm \in names} |-> <<>>]
       /\ dirs = IF names = {} THEN {} ELSE EnsureDir(ImagesDir(S_outputDir))
  /\ bucket = <<>>
  /\ totalSupply = 0
  /\ clock = 0
  /\ req = [p \in Procs |-> IdleReq]
  /\ calls = 0
  /\ faults = 0
  /\ ui = NoUi
  /\ ret = [pc |-> "start", scanned |-> FALSE, threw |-> FALSE, n |-> 0]

\* getLastNFTNumber(outputDir): ensureDir and readdir succeed and the entries
\* are scanned, or one of them fails and the catch returns 0
ScanLast ==
  /\ ret.pc = "start"
  /\ \E scanned \in BOOLEAN, made \in BOOLEAN :
       /\ scanned => made
       /\ ret' = [pc |-> "returned", scanned |-> scanned, threw |-> FALSE,
                  n |-> IF scanned THEN GetLastNFTNumber(files, S_outputDir) ELSE 0]
       /\ dirs' = IF made THEN dirs \cup EnsureDir(ImagesDir(S_outputDir)) ELSE dirs
  /\ UNCHANGED <<layers, layerDirs, env, files, bucket, totalSupply, clock, req,
                 calls, faults, ui>>

ScanNext == ScanLast

ScanSpec == ScanInit /\ [][ScanNext]_vars

(***************************************************************************)
(* The NFT image route: GET /api/nft-image/[tokenId].                       *)
(***************************************************************************)
S_dbFailed == <<"Database connection failed">>
S_notFound == <<"NFT image not found">>
S_idRequired == <<"Token ID is required">>

\* the getMinioConfig of the route: port 443 unless given, always SSL
RouteGetMinioConfig(e) ==
  [enabled |-> TRUE,
   endPoint |-> e.S3_ENDPOINT,
   port |-> ParseInt(IF e.S3_API_PORT # <<>> THEN e.S3_API_PORT ELSE <<"4", "4", "3">>),
   useSSL |-> TRUE,
   accessKey |-> e.S3_ACCESS_KEY,
   secretKey |-> e.S3_SECRET_KEY,
   bucketName |-> IF e.S3_BUCKET_NAME # <<>> THEN e.S3_BUCKET_NAME ELSE S_nftCollection]

\* mutant: the alternative path is tried before the standard one
RoutePaths_alternativeFirst(tokenId) ==
  << <<"metadata", "/", "images", "/">> \o tokenId \o S_dotpng,
     <<"images", "/">> \o tokenId \o S_dotpng,
     <<"collections", "/", "images", "/">> \o tokenId \o S_dotpng >>

\* the object paths the route tries, in order
RoutePaths(tokenId) ==
  << <<"images", "/">> \o tokenId \o S_dotpng,
     <<"metadata", "/", "images", "/">> \o tokenId \o S_dotpng,
     <<"collections", "/", "images", "/">> \o tokenId \o S_dotpng >>

\* the token ids of the requests (the router gives a non-empty segment)
RouteTokenIds == {<<"1">>, <<"2">>}

\* the objects the bucket can hold when the requests arrive
RouteObjects ==
  {RoutePaths(<<"1">>)[k] : k \in 1..3} \cup {RoutePaths(<<"2">>)[1]}

\* the bucket key of an object of the configured bucket
RouteKey(c, objectPath) == ObjectUrl(S_ep, c.bucketName, objectPath)

NoResponse == [status |-> 0, body |-> <<>>]

RouteInit ==
  /\ layers = DefaultLayers
  /\ layerDirs = [l \in {} |-> <<>>]
  /\ env \in {NoEnv, S3Env}
  /\ dirs = {}
  /\ files = <<>>
  /\ \E stored \in SUBSET RouteObjects :
       bucket = [u \in {RouteKey(RouteGetMinioConfig(S3Env), o) : o \in stored}
                   |-> [object |-> u]]
  /\ totalSupply = 0
  /\ clock = 0
  /\ req = [p \in Procs |-> IdleReq]
  /\ calls = 0
  /\ faults = 0
  /\ ui = NoUi
  /\ ret = [pc |-> "start", tokenId |-> <<>>, tried |-> <<>>, response |-> NoResponse]

\* GET is called: without token id 404; without MinIO client 500; otherwise
\* the loop over the paths is entered
RouteGet ==
  /\ ret.pc = "start"
  /\ \E tokenId \in RouteTokenIds, created \in BOOLEAN :
       LET config == RouteGetMinioConfig(env)
       IN ret' =
            IF tokenId = <<>>
            THEN [ret EXCEPT !.pc = "returned", !.tokenId = tokenId,
                             !.response = [status |-> 404, body |-> S_idRequired]]
            ELSE IF ~InitializeMinioClient(config, created)
            THEN [ret EXCEPT !.pc = "returned", !.tokenId = tokenId,
                             !.response = [status |-> 500, body |-> S_dbFailed]]
            ELSE [ret EXCEPT !.pc = "try", !.tokenId = tokenId]
  /\ UNCHANGED <<layers, layerDirs, env, dirs, files, bucket, totalSupply, clock, req,
                 calls, faults, ui>>

\* getObject and streamToBuffer of the next path settle: the object read is
\* answered with 200; after a failure the next path is tried, 404 after the
\* last one
RouteTry ==
  /\ ret.pc = "try"
  /\ \E read \in BOOLEAN :
       LET config == RouteGetMinioConfig(env)
           objectPath == RoutePaths(ret.tokenId)[Len(ret.tried) + 1]
           key == RouteKey(config, objectPath)
           found == read /\ key \in DOMAIN bucket
           tried == Append(ret.tried, [path |-> objectPath, found |-> found])
       IN ret' =
            IF found
            THEN [ret EXCEPT !.pc = "returned", !.tried = tried,
                             !.response = [status |-> 200, body |-> bucket[key]]]
            ELSE IF Len(tried) = 3
            THEN [ret EXCEPT !.pc = "returned", !.tried = tried,
                             !.response = [status |-> 404, body |-> S_notFound]]
            ELSE [ret EXCEPT !.tried = tried]
  /\ UNCHANGED <<layers, layerDirs, env, dirs, files, bucket, totalSupply, clock, req,
                 calls, faults, ui>>

RouteNext == RouteGet \/ RouteTry

RouteSpec == RouteInit /\ [][RouteNext]_vars

(***************************************************************************)
(* generateAndUploadNFT with every body of the total-supply response.       *)
(***************************************************************************)
\* a supply of one digit whose successor has two, besides none
InitialSupplies == {0, 9}

SupplyInit ==
  /\ layers = DefaultLayers
  /\ layerDirs \in DeployedFolders
  /\ env = S3Env
  /\ dirs = {}
  /\ files = <<>>
  /\ bucket = <<>>
  /\ totalSupply \in InitialSupplies
  /\ clock = 0
  /\ req = [p \in Procs |-> IdleReq]
  /\ calls = 0
  /\ faults = 0
  /\ ui = NoUi
  /\ ret = NoRet

SupplyNext ==
  \/ Mint
  \/ UploadStart(1)
  \/ UploadFetchedAll(1)
  \/ GenerateDraw(1)
  \/ UploadConnect(1)
  \/ UploadImage(1)
  \/ UploadReadMetadata(1)
  \/ UploadMetadata(1)

SupplySpec == SupplyInit /\ [][SupplyNext]_vars

(***************************************************************************)
(* The compositor alone: one call, any layer list, any layer folders.      *)
(***************************************************************************)
GenInit ==
  /\ layers \in LayerLists
  /\ layerDirs \in [{LayerFolder[n] : n \in LayerNames} -> FolderStates]
  /\ \A n \in LayerNames :
       (\A k \in 1..Len(layers) : layers[k].name # n) => ~layerDirs[LayerFolder[n]].exists
  /\ env = NoEnv
  /\ dirs = {}
  /\ files = <<>>
  /\ bucket = <<>>
  /\ totalSupply = 0
  /\ clock = 0
  /\ req = [p \in Procs |-> IdleReq]
  /\ calls = 0
  /\ faults = 0
  /\ ui = NoUi
  /\ ret = NoRet

GenNext ==
  \/ DirectGenerate(1)
  \/ GenerateDraw(1)

GenSpec == GenInit /\ [][GenNext]_vars


(***************************************************************************)
(* Properties of generateNFT (checked under GenSpec).                      *)
(***************************************************************************)
\* the entries of a layer's folder that are PNG files
PngFiles(layer) ==
  {k \in 1..Len(layerDirs[layer.folder].files) :
     /\ layerDirs[layer.folder].exists
     /\ EndsWith(ToLowerCase(layerDirs[layer.folder].files[k]), S_dotpng)}

\* the positions of the configured layers that have at least one PNG
LayersWithImages == {k \in 1..Len(layers) : PngFiles(layers[k]) # {}}

\* the required layers that have none
MissingRequired == {k \in 1..Len(layers) : layers[k].required /\ PngFiles(layers[k]) = {}}

\* the entries of the returned metadata's attributes that carry a trait_type
AttributesNamed(r, name) ==
  {j \in 1..Len(r.metadata.attributes) : r.metadata.attributes[j].trait_type = name}

\* the position of the layer called name in config.layers
LayerPosition(name) == CHOOSE k \in 1..Len(layers) : layers[k].name = name

\* C1: a successful generateNFT call returns metadata with exactly one
\* attribute named after each required layer whose folder holds a PNG
C1_RequiredLayerOnce ==
  \A p \in Procs :
    req[p].outcome = "fulfilled" =>
      \A k \in 1..Len(layers) :
        (layers[k].required /\ PngFiles(layers[k]) # {}) =>
          Cardinality(AttributesNamed(req[p], layers[k].name)) = 1

C1_Witness ==
  \E p \in Procs :
    /\ req[p].outcome = "fulfilled"
    /\ Len(layers) = 2
    /\ \A k \in 1..Len(layers) : layers[k].required /\ Cardinality(PngFiles(layers[k])) = 2

\* C2: an optional layer without any PNG never makes the call fail (a failure
\* is a write error or names a required layer that has no images) and no
\* attribute carries its name, neither in the combination nor in the metadata
C2_OptionalLayerSkipped ==
  \A p \in Procs :
    \A k \in 1..Len(layers) :
      (~layers[k].required /\ PngFiles(layers[k]) = {}) =>
        /\ \A j \in 1..Len(req[p].attributes) : req[p].attributes[j].name # layers[k].name
        /\ AttributesNamed(req[p], layers[k].name) = {}
        /\ req[p].outcome = "rejected" =>
             \/ req[p].error = S_EIO
             \/ \E m \in MissingRequired : req[p].error = MissingLayerMessage(layers[m].name)
        /\ (req[p].pc = "returned" /\ MissingRequired = {} /\ req[p].error # S_EIO) =>
             req[p].outcome = "fulfilled"

C2_Witness ==
  \E p \in Procs :
    /\ req[p].outcome = "fulfilled"
    /\ Len(layers) = 2
    /\ ~layers[1].required /\ PngFiles(layers[1]) = {}
    /\ Len(req[p].metadata.attributes) = 1

\* C3: when a required layer has no images the call fails, the error message
\* names the (first) such layer and no combination is returned
C3_MissingRequiredFails ==
  \A p \in Procs :
    (req[p].pc # "idle" /\ MissingRequired # {}) =>
      LET first == CHOOSE m \in MissingRequired : \A n \in MissingRequired : m <= n
      IN /\ req[p].pc = "returned"
         /\ req[p].outcome = "rejected"
         /\ req[p].error = S_errPrefix \o layers[first].name \o S_errSuffix
         /\ req[p].attributes = <<>>
         /\ req[p].metadata = NoMetadata

C3_Witness ==
  \E p \in Procs :
    /\ req[p].outcome = "rejected"
    /\ Len(layers) = 2
    /\ PngFiles(layers[1]) # {}
    /\ MissingRequired = {2}
    /\ req[p].error = S_errPrefix \o layers[2].name \o S_errSuffix

\* C6: the image field is the absolute URL exactly when both s3Endpoint and
\* s3BucketName are given, and the bare file name otherwise
C6_ImageField ==
  \A p \in Procs :
    req[p].outcome = "fulfilled" =>
      LET cfg == req[p].config
          n == NumToStr(req[p].tokenId)
          url == S_https \o cfg.s3Endpoint \o <<"/">> \o cfg.s3BucketName
                   \o <<"/", "images", "/">> \o n \o S_dotpng
          both == cfg.s3Endpoint # <<>> /\ cfg.s3BucketName # <<>>
      IN /\ (req[p].metadata.image = url) <=> both
         /\ ~both => req[p].metadata.image = n \o S_dotpng
         /\ JSONParse(files[req[p].metadataPath]).image = req[p].metadata.image

C6_Witness ==
  \E p \in Procs :
    /\ req[p].outcome = "fulfilled"
    /\ req[p].config.s3Endpoint # <<>>
    /\ req[p].config.s3BucketName # <<>>
    /\ StartsWith(req[p].metadata.image, S_https)

\* C9: the metadata has as many attributes as there are configured layers
\* with at least one PNG
C9_AttributeCount ==
  \A p \in Procs :
    req[p].outcome = "fulfilled" =>
      Len(req[p].metadata.attributes) = Cardinality(LayersWithImages)

C9_Witness ==
  \E p \in Procs :
    /\ req[p].outcome = "fulfilled"
    /\ Len(layers) = 2
    /\ Cardinality(LayersWithImages) = 1

\* C10: the combination, the metadata attributes and the draws follow the
\* order of config.layers
C10_LayerOrder ==
  \A p \in Procs :
    LET r == req[p]
        InOrder(names) ==
          \A a, b \in 1..Len(names) :
            a < b => LayerPosition(names[a]) < LayerPosition(names[b])
    IN /\ InOrder([j \in 1..Len(r.attributes) |-> r.attributes[j].name])
       /\ InOrder([j \in 1..Len(r.metadata.attributes) |-> r.metadata.attributes[j].trait_type])
       /\ \A a, b \in 1..Len(r.drawn) :
            a < b => \E i, j \in 1..Len(r.attributes) :
                       /\ i < j
                       /\ r.attributes[i].path = r.drawn[a]
                       /\ r.attributes[j].path = r.drawn[b]

C10_Witness ==
  \E p \in Procs :
    /\ req[p].outcome = "fulfilled"
    /\ Len(req[p].metadata.attributes) = 2
    /\ Len(req[p].drawn) = 2

\* the directories generateNFT makes for DEFAULT_CONFIG's outputDir
OutputTree ==
  { <<"public">>, <<"public", "/", "output">>,
    <<"public", "/", "output", "/", "images">>,
    <<"public", "/", "output", "/", "metadata">> }

\* the step in which slot p's generateNFT call is rejected for a required
\* layer without images
RejectedForMissingLayer(p) ==
  /\ calls' = calls + 1
  /\ req'[p].kind = "direct"
  /\ req'[p].outcome = "rejected"
  /\ \E k \in 1..Len(layers) :
       req'[p].error = S_errPrefix \o layers[k].name \o S_errSuffix

\* C4 (as the code has it): a generateNFT call that fails for a required
\* layer without images writes and changes no file, but it has already made
\* the images and metadata directories of the output directory
C4_OnlyDirectoriesMade ==
  [][\A p \in Procs :
       RejectedForMissingLayer(p) =>
         /\ files' = files
         /\ dirs' = dirs \cup OutputTree]_vars

C4_Witness ==
  \E p \in Procs :
    /\ req[p].kind = "direct"
    /\ req[p].outcome = "rejected"
    /\ MissingRequired # {}
    /\ files = <<>>
    /\ dirs = OutputTree

\* C4 as stated: a generateNFT call that fails for a required layer without
\* images leaves the output location exactly as it was, nothing created
C4_NothingCreated ==
  [][\A p \in Procs :
       RejectedForMissingLayer(p) => (files' = files /\ dirs' = dirs)]_vars

(***************************************************************************)
(* Properties of the server actions (checked under SeqSpec and Spec).      *)
(***************************************************************************)
\* the metadata files on disk
MetadataFiles(f) == {q \in DOMAIN f : EndsWith(q, S_dotjson)}

\* the step in which slot p's generateNFT call writes the metadata file q
GenerateWrites(p, q) ==
  /\ req[p].pc = "gen_draw"
  /\ req'[p].outcome = "fulfilled"
  /\ req'[p].metadataPath = q

\* the step in which the upload of slot p's createNewCollection call writes
\* the metadata file q back with its bare image name made the URL of the
\* image in the collection's bucket, everything else as it was
UploadMakesAbsolute(p, q) ==
  /\ req[p].pc = "up_write"
  /\ req[p].kind = "create"
  /\ req[p].metadataPath = q
  /\ JSONMember(files[q], "image") = TokenStr(req[p].tokenId) \o S_dotpng
  /\ JSONParse(files'[q]) =
       [JSONParse(files[q]) EXCEPT
          !.image = S_https \o GetMinioConfig(env).endPoint \o <<"/">>
                      \o GetMinioConfig(env).bucketName \o S_slashCollections
                      \o req[p].folderName \o S_slashImages
                      \o TokenStr(req[p].tokenId) \o S_dotpng]

Numbered(p) == req[p].pc \notin {"idle", "returned", "fetch", "scan", "create_dirs"}

\* C7 as stated: two calls of generateAndUploadNFT, or of
\* generateNFTForCollection on one collection, that run at the same time have
\* different token ids
C7_DistinctTokenIds ==
  \A p1, p2 \in Procs :
    ( /\ p1 # p2
      /\ Numbered(p1) /\ Numbered(p2)
      /\ req[p1].kind = req[p2].kind
      /\ req[p1].kind \in {"upload", "collection"}
      /\ req[p1].config.outputDir = req[p2].config.outputDir )
    => req[p1].tokenId # req[p2].tokenId

\* C8 as stated: a generateNFTForCollection call takes the token id one above
\* the highest numbered PNG of the collection's images directory, so the
\* image it is to write does not exist yet
C8_CollectionIdsIncrease ==
  [][\A p \in Procs :
       (req[p].pc = "scan" /\ req'[p].pc # "scan") =>
         /\ req'[p].tokenId = 1 + GetLastNFTNumber(files, CollectionDir(req[p].folderName))
         /\ OutputImagePath(req'[p].config, req'[p].tokenId) \notin DOMAIN files]_vars

(***************************************************************************)
(* Further properties of generateNFT (checked under GenSpec).              *)
(***************************************************************************)
\* the paths of the selected layers, in order
SelectedPaths(r) == [j \in 1..Len(r.attributes) |-> r.attributes[j].path]

\* the elements of a sequence
Range(s) == {s[j] : j \in 1..Len(s)}

\* C11: a call that has selected layers ends fulfilled unless a file cannot
\* be written, whatever images fail to load; then both files are on disk
\* and the image holds, in order, every selected layer but those that
\* failed to load
C11_LoadFailureSkipsLayer ==
  \A p \in Procs :
    (req[p].pc = "returned" /\ req[p].attributes # <<>>) =>
      /\ req[p].outcome = "fulfilled" \/ req[p].error = S_EIO
      /\ req[p].outcome = "fulfilled" =>
           LET InImage(path) == path \in Range(req[p].drawn)
           IN /\ req[p].imagePath \in DOMAIN files
              /\ req[p].metadataPath \in DOMAIN files
              /\ files[req[p].imagePath].drawn = req[p].drawn
              /\ req[p].drawn = SelectSeq(SelectedPaths(req[p]), InImage)
              /\ Len(req[p].drawn) >= Len(req[p].attributes) - faults
              /\ Len(req[p].metadata.attributes) = Len(req[p].attributes)

C11_Witness ==
  \E p \in Procs :
    /\ req[p].outcome = "fulfilled"
    /\ Len(req[p].attributes) = 2
    /\ req[p].drawn = <<req[p].attributes[2].path>>
    /\ req[p].metadataPath \in DOMAIN files

\* C12: the files are written after the selection and the draws, the image
\* before the metadata: on a disk that was empty there is no metadata file
\* without its image file, a file only once every selected layer has had
\* its draw, and an image file without metadata file exactly when the call
\* was rejected with the error of the metadata write, the image left behind
C12_ImageBeforeMetadata ==
  \A p \in Procs :
    LET r == req[p]
        image == OutputImagePath(r.config, r.tokenId)
        metadata == OutputMetadataPath(r.config, r.tokenId)
    IN r.kind = "direct" =>
         /\ metadata \in DOMAIN files =>
              (image \in DOMAIN files /\ r.outcome = "fulfilled")
         /\ image \in DOMAIN files =>
              (r.pc = "returned" /\ (r.attributes = <<>> \/ r.i = Len(r.attributes) + 1))
         /\ (image \in DOMAIN files /\ metadata \notin DOMAIN files) =>
              (r.outcome = "rejected" /\ r.error = S_EIO)
         /\ r.outcome = "rejected" => metadata \notin DOMAIN files
         /\ r.outcome = "fulfilled" => {image, metadata} \subseteq DOMAIN files

C12_Witness ==
  \E p \in Procs :
    /\ req[p].kind = "direct"
    /\ req[p].outcome = "rejected"
    /\ req[p].error = S_EIO
    /\ OutputImagePath(req[p].config, req[p].tokenId) \in DOMAIN files
    /\ OutputMetadataPath(req[p].config, req[p].tokenId) \notin DOMAIN files

\* the file a path relative to the working directory names
Resolve(path) ==
  IF StartsWith(path, <<".", "/">>) THEN SubSeq(path, 3, Len(path)) ELSE path

\* C13: after a successful generateNFT(tokenId, config) call the image is the
\* file <outputDir>/images/<tokenId>.png, the metadata is the file
\* <outputDir>/metadata/<tokenId>.json, and the call returns these two paths
C13_OutputFiles ==
  \A p \in Procs :
    (req[p].kind = "direct" /\ req[p].outcome = "fulfilled") =>
      LET r == req[p]
          image == Resolve(r.config.outputDir \o <<"/", "images", "/">>
                             \o NumToStr(r.tokenId) \o <<".", "p", "n", "g">>)
          metadata == Resolve(r.config.outputDir \o <<"/", "metadata", "/">>
                                \o NumToStr(r.tokenId) \o <<".", "j", "s", "o", "n">>)
      IN /\ image \in DOMAIN files
         /\ DOMAIN files[image] = {"drawn", "timestamp"}
         /\ metadata \in DOMAIN files
         /\ JSONParse(files[metadata]) = r.metadata
         /\ r.imagePath = image
         /\ r.metadataPath = metadata
         /\ DOMAIN files = {image, metadata}

C13_Witness ==
  \E p \in Procs :
    /\ req[p].kind = "direct"
    /\ req[p].outcome = "fulfilled"
    /\ req[p].tokenId = 2
    /\ req[p].imagePath = <<"public", "/", "output", "/", "images", "/", "2", ".", "p", "n", "g">>
    /\ req[p].metadataPath \in DOMAIN files

\* C14: the metadata file generateNFT wrote, read back and parsed, gives the
\* name, the attributes (same order, same values) and the timestamp of the
\* metadata object the call returned
C14_RoundTrip ==
  \A p \in Procs :
    (req[p].kind = "direct" /\ req[p].outcome = "fulfilled") =>
      LET onDisk == JSONParse(files[req[p].metadataPath])
          returned == req[p].metadata
      IN /\ onDisk.name = returned.name
         /\ Len(onDisk.attributes) = Len(returned.attributes)
         /\ \A j \in 1..Len(returned.attributes) :
              /\ onDisk.attributes[j].trait_type = returned.attributes[j].trait_type
              /\ onDisk.attributes[j].value = returned.attributes[j].value
         /\ onDisk.timestamp = returned.timestamp

C14_Witness ==
  \E p \in Procs :
    /\ req[p].kind = "direct"
    /\ req[p].outcome = "fulfilled"
    /\ Len(req[p].metadata.attributes) = 2
    /\ req[p].metadata.timestamp = MaxClock
    /\ JSONMember(files[req[p].metadataPath], "timestamp") = MaxClock

\* C15: the metadata of token n is named "<collectionName> #n", has the
\* description of the config and, for each selected layer in turn, an
\* attribute whose trait_type is the layer's name and whose value is the name
\* of the chosen PNG of that layer's folder without its extension; without
\* S3 endpoint and bucket the image is "n.png"
C15_MetadataContent ==
  \A p \in Procs :
    (req[p].kind = "direct" /\ req[p].outcome = "fulfilled") =>
      LET r == req[p]
          m == r.metadata
          n == NumToStr(r.tokenId)
          ChosenFrom(layer, a, attr) ==
            \E k \in PngFiles(layer) :
              LET file == layerDirs[layer.folder].files[k]
              IN /\ a.path = Resolve(layer.folder \o <<"/">> \o file)
                 /\ attr.value = SubSeq(file, 1, Len(file) - 4)
      IN /\ m.name = r.config.collectionName \o <<" #">> \o n
         /\ m.description = r.config.description
         /\ Len(m.attributes) = Len(r.attributes)
         /\ \A j \in 1..Len(m.attributes) :
              /\ m.attributes[j].trait_type = r.attributes[j].name
              /\ \E k \in 1..Len(layers) :
                   /\ layers[k].name = r.attributes[j].name
                   /\ ChosenFrom(layers[k], r.attributes[j], m.attributes[j])
         /\ (r.config.s3Endpoint = <<>> /\ r.config.s3BucketName = <<>>) =>
              m.image = n \o <<".", "p", "n", "g">>

C15_Witness ==
  \E p \in Procs :
    /\ req[p].kind = "direct"
    /\ req[p].outcome = "fulfilled"
    /\ req[p].tokenId = 2
    /\ req[p].metadata.name = <<"Dog NFT Collection", " #", "2">>
    /\ req[p].metadata.attributes =
         << [trait_type |-> <<"Background">>, value |-> <<"a">>],
            [trait_type |-> <<"Subject">>, value |-> <<"B">>] >>
    /\ req[p].metadata.image = <<"2", ".", "p", "n", "g">>

\* C16: whatever Math.random() returns, createRandomCombination gives a
\* layer whose folder holds exactly one PNG the trait it gave it in the call
\* made: the name of that PNG without its extension
C16_SingleImageSameTrait ==
  \A p \in Procs :
    req[p].attributes # <<>> =>
      \A rnd \in RandomDraws :
        LET again == CreateRandomCombination(layers, layerDirs, rnd)
            TraitsOf(combination, name) ==
              {combination[j].trait :
                 j \in {i \in 1..Len(combination) : combination[i].name = name}}
        IN /\ again.ok
           /\ \A k \in 1..Len(layers) :
                Cardinality(PngFiles(layers[k])) = 1 =>
                  /\ Cardinality(TraitsOf(again.combination, layers[k].name)) = 1
                  /\ TraitsOf(again.combination, layers[k].name)
                       = TraitsOf(req[p].attributes, layers[k].name)

C16_Witness ==
  \E p \in Procs :
    /\ req[p].outcome = "fulfilled"
    /\ Len(layers) = 2
    /\ layerDirs[layers[1].folder].files = <<F_n, F_a>>
    /\ Cardinality(PngFiles(layers[2])) = 2
    /\ req[p].attributes[1].trait = <<"a">>
    /\ req[p].attributes[2].trait = <<"B">>

(***************************************************************************)
(* Further properties of the server actions (checked under Spec, SeqSpec). *)
(***************************************************************************)
\* an entry whose name ends with .png, in whatever case
IsPngName(file) ==
  /\ Len(file) >= 4
  /\ file[Len(file) - 3] = "."
  /\ file[Len(file) - 2] \in {"p", "P"}
  /\ file[Len(file) - 1] \in {"n", "N"}
  /\ file[Len(file)] \in {"g", "G"}

\* what getImagesForLayer is to return for a layer whose folder is fs: nothing
\* when the folder does not exist, else a LayerAttribute for each entry named
\* *.png and for no other entry
ListsFolder(images, layer, fs) ==
  LET pngs == {i \in 1..Len(fs.files) : IsPngName(fs.files[i])}
      PathOf(i) == Resolve(layer.folder \o <<"/">> \o fs.files[i])
  IN IF ~fs.exists THEN images = <<>>
     ELSE /\ Len(images) = Cardinality(pngs)
          /\ \A i \in pngs :
               Cardinality({j \in 1..Len(images) : images[j].path = PathOf(i)}) = 1
          /\ \A j \in 1..Len(images) :
               /\ images[j].name = layer.name
               /\ \E i \in pngs : images[j].path = PathOf(i)

\* C17: getImagesForLayer returns nothing for a folder that does not exist and
\* otherwise one LayerAttribute for each entry named *.png in any case and
\* none for another entry; every call reads the folder as it then is: the
\* combination a call selects has one image of each folder's present PNGs
C17_LayerImages ==
  /\ [](\A k \in 1..Len(layers) :
          \A fs \in FolderStates \cup {layerDirs[layers[k].folder]} :
            ListsFolder(GetImagesForLayer(layers[k],
                                          [layerDirs EXCEPT ![layers[k].folder] = fs]),
                        layers[k], fs))
  /\ [][\A p \in Procs :
          (req[p].pc # "gen_draw" /\ req'[p].pc = "gen_draw") =>
            /\ Len(req'[p].attributes) = Len(layers)
            /\ \A k \in 1..Len(layers) :
                 \E i \in 1..Len(layerDirs[layers[k].folder].files) :
                   /\ layerDirs[layers[k].folder].exists
                   /\ IsPngName(layerDirs[layers[k].folder].files[i])
                   /\ req'[p].attributes[k].path =
                        Resolve(layers[k].folder \o <<"/">>
                                  \o layerDirs[layers[k].folder].files[i])]_vars

C17_Witness ==
  \E p1, p2 \in Procs :
    /\ req[p1].outcome = "rejected"
    /\ req[p1].error = <<"Layer \"", "Subject", "\" is required but has no images">>
    /\ req[p2].outcome = "fulfilled"
    /\ req[p2].attributes[2].trait = <<"B">>

\* C18 as stated: when a flow without any failure ends with minioStatus
\* 'success', the image field of the <tokenId>.json it uploaded is the URL of
\* the <tokenId>.png it uploaded
C18_MetadataReferencesImage ==
  \A p \in Procs :
    ( /\ faults = 0
      /\ req[p].pc = "returned"
      /\ req[p].result.success
      /\ req[p].result.minioStatus = "success" ) =>
      LET r == req[p]
          endPoint == GetMinioConfig(env).endPoint
          n == NumToStr(r.tokenId)
          imageObject == S_https \o endPoint \o <<"/">> \o r.bucketName
                           \o <<"/", "images", "/">> \o n \o <<".", "p", "n", "g">>
          metadataObject == S_https \o endPoint \o <<"/">> \o r.bucketName
                              \o <<"/", "metadata", "/">> \o n \o <<".", "j", "s", "o", "n">>
      IN /\ imageObject \in DOMAIN bucket
         /\ metadataObject \in DOMAIN bucket
         /\ JSONMember(bucket[metadataObject], "image") = imageObject

\* C19: when the total-supply request fails (network error, status not OK,
\* body without a supply field) generateAndUploadNFT returns success=false,
\* "Failed to get token ID from blockchain", fromBlockchain=false; it never
\* calls generateNFT, and the step leaves disk and bucket as they were
C19_NoSupplyNoGeneration ==
  /\ [](\A p \in Procs :
          req[p].response \in {"network error", "not ok", "no supply field"} =>
            /\ req[p].pc = "returned"
            /\ ~req[p].result.success
            /\ req[p].result.message = <<"Failed to get token ID from blockchain">>
            /\ ~req[p].result.fromBlockchain
            /\ req[p].result.minioStatus = "none"
            /\ req[p].tokenId = 0
            /\ req[p].outcome = "none"
            /\ req[p].attributes = <<>>)
  /\ [][\A p \in Procs :
          ( /\ req[p].pc = "fetch"
            /\ req'[p].response \in {"network error", "not ok", "no supply field"} )
          => (files' = files /\ dirs' = dirs /\ bucket' = bucket)]_vars

C19_Witness ==
  \E p \in Procs :
    /\ req[p].response = "no supply field"
    /\ req[p].pc = "returned"
    /\ req[p].result.message = S_failTokenId
    /\ files = <<>>
    /\ dirs = {}

\* slot p's call is inside uploadNFTToMinio, past the creation of the client
Uploading(p) == req[p].pc \in {"up_connect", "up_image", "up_read", "up_write", "up_metadata"}

\* C20 (as the code has it): once generateNFT has succeeded a server action
\* returns success=true; minioStatus is 'skipped' exactly when the
\* configuration is invalid (no upload is started), 'success' exactly when
\* uploadNFTToMinio ran to its end, 'failed' when the client could not be
\* created or the connection test failed; minioImageUrl and minioMetadataUrl
\* are returned only by generateAndUploadNFT, exactly when minioStatus is
\* 'success'
C20_UploadStatus ==
  /\ [](\A p \in Procs :
          (req[p].pc = "returned" /\ req[p].outcome = "fulfilled") =>
            LET res == req[p].result
                valid == ValidateMinioConfig(GetMinioConfig(env))
                urls == res.minioImageUrl # <<>> /\ res.minioMetadataUrl # <<>>
                none == res.minioImageUrl = <<>> /\ res.minioMetadataUrl = <<>>
            IN /\ res.success
               /\ res.minioStatus \in {"skipped", "failed", "success"}
               /\ res.minioStatus = "skipped" <=> ~valid
               /\ urls \/ none
               /\ urls <=> (req[p].kind = "upload" /\ res.minioStatus = "success"))
  /\ [][\A p \in Procs :
          (req[p].pc # "returned" /\ req'[p].pc = "returned"
             /\ req'[p].outcome = "fulfilled") =>
            LET status == req'[p].result.minioStatus
            IN /\ status = "success" <=> req[p].pc = "up_metadata"
               /\ status = "failed" =>
                    (req[p].pc = "up_connect" \/ (~Uploading(p) /\ bucket' = bucket))
               /\ status = "skipped" => (~Uploading(p) /\ bucket' = bucket)]_vars

C20_Witness ==
  \E p \in Procs :
    /\ req[p].kind = "create"
    /\ req[p].pc = "returned"
    /\ req[p].result.success
    /\ req[p].result.minioStatus = "success"
    /\ req[p].result.minioImageUrl = <<>>

\* C20 as stated: once generateNFT has succeeded, minioImageUrl and
\* minioMetadataUrl are set exactly when minioStatus is 'success'
C20_UrlsIffSuccess ==
  \A p \in Procs :
    (req[p].pc = "returned" /\ req[p].outcome = "fulfilled") =>
      ( (req[p].result.minioImageUrl # <<>> /\ req[p].result.minioMetadataUrl # <<>>)
          <=> req[p].result.minioStatus = "success" )

(***************************************************************************)
(* C21: in the mint flow generateAndUploadNFT is invoked only after        *)
(* mintNFT returned success; while a generation of the flow is under way   *)
(* the last mintNFT result is a success; a mint that fails or throws, and  *)
(* a click without web3auth or wallet address, start no generation, leave  *)
(* the server and its files alone and show an error.                       *)
(***************************************************************************)
MintSucceeded == ui.mintResult = "success"

GenerationUnderWay == req[1].pc # "idle"

C21_GenerateAfterMint ==
  /\ [](GenerationUnderWay \/ ui.pc = "awaiting" => MintSucceeded)
  /\ [][calls' # calls => ui.pc = "awaiting" /\ MintSucceeded]_vars
  /\ [][ui.pc = "minting" /\ ui' # ui /\ ui'.mintResult # "success"
          => /\ ui'.pc = "idle"
             /\ ui'.error = MintError(ui'.mintResult)
             /\ ui'.error # <<>>
             /\ UNCHANGED <<req, calls, dirs, files, bucket>>]_vars
  /\ [][ui.pc = "idle" /\ ui' # ui /\ (~ui.web3auth \/ ~ui.walletAddress)
          => /\ ui'.pc = "idle"
             /\ ui'.error = S_connectFirst
             /\ UNCHANGED <<req, calls, dirs, files, bucket>>]_vars

\* a mint that returned success false without a text: the default error is
\* shown and nothing was generated
C21_Witness ==
  /\ ui.pc = "idle"
  /\ ui.mintResult = "fails silently"
  /\ ui.error = S_mintFailed
  /\ calls = 0
  /\ files = <<>>

(***************************************************************************)
(* C22: validateMinioConfig returns true exactly when endPoint, accessKey  *)
(* and secretKey are non-empty and the port is a number above 0; the port  *)
(* of getMinioConfig is 9000 when S3_API_PORT is unset, and useSSL is true *)
(* exactly when the port is 443.                                           *)
(***************************************************************************)
\* the port each value of S3_API_PORT stands for, 0 - 1 standing for -1;
\* none for a text parseInt makes no number of
PortNumber(portStr) ==
  IF portStr = <<"4", "4", "3">> \/ portStr = <<"4", "4", "3", "x">> THEN <<443>>
  ELSE IF portStr = <<"9", "0", "0", "0">> THEN <<9000>>
  ELSE IF portStr = <<" ", "8", "0">> THEN <<80>>
  ELSE IF portStr = <<"0">> THEN <<0>>
  ELSE IF portStr = <<"-", "1">> THEN <<0 - 1>>
  ELSE <<>>

C22_ConfigValidation ==
  /\ ret.pc \in {"config", "validated"} =>
       LET c == ret.config
           unset == env.S3_API_PORT = <<>>
           number == IF unset THEN <<9000>> ELSE PortNumber(env.S3_API_PORT)
       IN /\ c.port.nan = (number = <<>>)
          /\ ~c.port.nan => c.port.n = number[1]
          /\ c.useSSL = (number = <<443>>)
          /\ c.endPoint = env.S3_ENDPOINT
          /\ c.accessKey = env.S3_ACCESS_KEY
          /\ c.secretKey = env.S3_SECRET_KEY
  /\ ret.pc = "validated" =>
       ret.valid = (/\ env.S3_ENDPOINT # <<>>
                    /\ env.S3_ACCESS_KEY # <<>>
                    /\ env.S3_SECRET_KEY # <<>>
                    /\ ~ret.config.port.nan
                    /\ ret.config.port.n > 0)

\* a configuration with endpoint and keys that is rejected for its port alone
C22_Witness ==
  /\ ret.pc = "validated"
  /\ ~ret.valid
  /\ ret.config.endPoint # <<>> /\ ret.config.accessKey # <<>> /\ ret.config.secretKey # <<>>
  /\ ~ret.config.port.nan /\ ret.config.port.n = 0

(***************************************************************************)
(* C23: getLastNFTNumber returns the highest N such that a file N.png      *)
(* exists in <outputDir>/images, 0 when there is no such file, and 0       *)
(* without throwing when the directory cannot be read.                     *)
(***************************************************************************)
\* the N, up to the highest the names tried can stand for, whose N.png exists
NumberedPngs(f, outputDir) ==
  {n \in 0..10 : PathJoin(ImagesDir(outputDir), NumToStr(n) \o S_dotpng) \in DOMAIN f}

HighestNumberedPng(f, outputDir) ==
  IF NumberedPngs(f, outputDir) = {} THEN 0
  ELSE CHOOSE m \in NumberedPngs(f, outputDir) : \A k \in NumberedPngs(f, outputDir) : k <= m

C23_HighestNumberedPng ==
  ret.pc = "returned" =>
    /\ ~ret.threw
    /\ ret.scanned => ret.n = HighestNumberedPng(files, S_outputDir)
    /\ ~ret.scanned => ret.n = 0

(***************************************************************************)
(* C24: the folder name createNewCollection derives holds only a-z, 0-9    *)
(* and "-"; an empty folder name is answered with success false and no     *)
(* directory or file is created; otherwise token 1 is generated, so that   *)
(* the collection's 1.png and 1.json are written anew when the folder      *)
(* exists already.                                                         *)
(***************************************************************************)
FirstImage(folderName) ==
  <<"public", "/", "collections", "/">> \o folderName
    \o <<"/", "images", "/", "1", ".", "p", "n", "g">>

FirstMetadata(folderName) ==
  <<"public", "/", "collections", "/">> \o folderName
    \o <<"/", "metadata", "/", "1", ".", "j", "s", "o", "n">>

C24_CreateCollection ==
  /\ [](\A p \in Procs :
         req[p].kind = "create" =>
           LET r == req[p]
           IN /\ \A i \in 1..Len(r.folderName) :
                   r.folderName[i] \in LowerLetters \cup DigitChars \cup {"-"}
              /\ r.folderName = <<>> =>
                   /\ r.pc = "returned"
                   /\ ~r.result.success
                   /\ r.result.message = S_invalidName
              /\ (r.folderName # <<>> /\ r.pc # "create_dirs") => r.tokenId = 1
              /\ (r.pc = "returned" /\ r.result.success) => r.result.tokenId = 1)
  /\ [][\A p \in Procs :
          (req'[p] # req[p] /\ req'[p].kind = "create" /\ req'[p].folderName = <<>>)
            => UNCHANGED <<dirs, files, bucket>>]_vars
  /\ [][\A p \in Procs :
          (req'[p].kind = "create" /\ req[p].outcome # "fulfilled"
             /\ req'[p].outcome = "fulfilled")
            => LET r == req'[p]
               IN /\ FirstImage(r.folderName) \in DOMAIN files'
                  /\ files'[FirstImage(r.folderName)].drawn = r.drawn
                  /\ FirstMetadata(r.folderName) \in DOMAIN files'
                  /\ JSONParse(files'[FirstMetadata(r.folderName)]) = r.metadata
                  /\ \A q \in DOMAIN files :
                       q \notin {FirstImage(r.folderName), FirstMetadata(r.folderName)}
                         => files'[q] = files[q]]_vars

\* two createNewCollection calls for one folder have both generated token 1:
\* the later one wrote 1.png and 1.json over those of the earlier one
C24_Witness ==
  /\ \A p \in Procs :
       /\ req[p].kind = "create"
       /\ req[p].pc = "returned"
       /\ req[p].result.success
       /\ req[p].tokenId = 1
  /\ req[1].folderName = req[2].folderName
  /\ FirstImage(req[1].folderName) \in DOMAIN files

(***************************************************************************)
(* C25: the image route answers 500 when the MinIO client cannot be        *)
(* initialised; otherwise it tries images/<id>.png, then                   *)
(* metadata/images/<id>.png, then collections/images/<id>.png, answers 200 *)
(* with the first object that can be read without trying the later paths,  *)
(* and 404 when none can be read; the body of a 200 is an object of the    *)
(* bucket, never a placeholder or a local file.                            *)
(***************************************************************************)
\* endpoint and keys are configured
Configured == env.S3_ENDPOINT # <<>> /\ env.S3_ACCESS_KEY # <<>> /\ env.S3_SECRET_KEY # <<>>

\* the k-th object path of the claim for a token id
ClaimedPath(k, tokenId) ==
  IF k = 1 THEN <<"images", "/">> \o tokenId \o <<".", "p", "n", "g">>
  ELSE IF k = 2 THEN <<"metadata", "/", "images", "/">> \o tokenId \o <<".", "p", "n", "g">>
  ELSE <<"collections", "/", "images", "/">> \o tokenId \o <<".", "p", "n", "g">>

C25_ImageRoute ==
  /\ Len(ret.tried) <= 3
  /\ \A k \in 1..Len(ret.tried) :
       /\ ret.tried[k].path = ClaimedPath(k, ret.tokenId)
       /\ ret.tried[k].found => k = Len(ret.tried)
       /\ ret.tried[k].found => RouteKey(RouteGetMinioConfig(env), ret.tried[k].path) \in DOMAIN bucket
  /\ ret.tried # <<>> => Configured
  /\ ret.pc = "try" => Len(ret.tried) < 3 /\ \A k \in 1..Len(ret.tried) : ~ret.tried[k].found
  /\ ret.pc = "returned" =>
       /\ ret.response.status \in {200, 404, 500}
       /\ ~Configured => ret.response.status = 500
       /\ ret.response.status = 500 => ret.tried = <<>>
       /\ ret.response.status = 200 <=>
             (ret.tried # <<>> /\ ret.tried[Len(ret.tried)].found)
       /\ ret.response.status = 200 =>
             ret.response.body =
               bucket[RouteKey(RouteGetMinioConfig(env), ret.tried[Len(ret.tried)].path)]
       /\ ret.response.status = 404 <=>
             (Len(ret.tried) = 3 /\ \A k \in 1..3 : ~ret.tried[k].found)
  /\ files = <<>>

\* the first path failed, the second was read and answered; the third object
\* is in the bucket as well and was not tried
C25_Witness ==
  /\ ret.pc = "returned"
  /\ ret.response.status = 200
  /\ Len(ret.tried) = 2
  /\ RouteKey(RouteGetMinioConfig(env), ClaimedPath(3, ret.tokenId)) \in DOMAIN bucket

(***************************************************************************)
(* C26: whenever generateAndUploadNFT goes on to the generation, its token *)
(* id is a positive integer, the total supply the API reported plus one,   *)
(* whether the body is the bare number or an object holding the supply     *)
(* under totalSupply, total, supply, count or value, as a number or as a   *)
(* decimal string.                                                         *)
(***************************************************************************)
AcceptedResponses == {"number", "totalSupply string"} \cup SupplyResponses

C26_NextTokenId ==
  /\ [][\A p \in Procs :
          (req[p].pc = "fetch" /\ req'[p].pc # "fetch"
             /\ req'[p].response \in AcceptedResponses)
            => /\ req'[p].tokenId = totalSupply + 1
               /\ req'[p].tokenId \in Nat \ {0}
               /\ req'[p].fromBlockchain]_vars
  /\ [](\A p \in Procs :
         (req[p].kind = "upload" /\ req[p].pc \notin {"idle", "fetch"}) =>
           /\ req[p].response \in AcceptedResponses => req[p].tokenId \in Nat \ {0}
           /\ req[p].response \notin AcceptedResponses =>
                 (req[p].pc = "returned" /\ ~req[p].result.success
                    /\ req[p].outcome = "none"))

\* a supply of 9 reported as { value: "9" }: token 10 has been generated
C26_Witness ==
  /\ req[1].kind = "upload"
  /\ req[1].response = "value string"
  /\ req[1].outcome = "fulfilled"
  /\ req[1].tokenId = 10
  /\ totalSupply = 9
====
